---- MODULE Spec2Model ----
(***************************************************************************)
(* A model of the AR sun-trajectory application: the trajectory sampler    *)
(* (calculateSunTrajectory), the content builder (createARContent), the    *)
(* projector (sunPositionTo3D) and the orientation converters              *)
(* (setObjectQuaternion, deviceOrientationToEuler and their callers),      *)
(* the inverse mapper (quaternionToDeviceOrientation), the pages that hold *)
(* a trajectory, the orientation listener (createOrientationListener),     *)
(* the animation loop of ARScene, the scene components and their effects,  *)
(* the keyboard controls of the simulated device, the location cache and   *)
(* the camera field of view.  Each part is a specification of its own      *)
(* over the same variables: SpecTrajectory, SpecContent, SpecOrientation,  *)
(* SpecProjector, SpecTick, SpecPage, SpecFailure, SpecListener, SpecView  *)
(* (SpecViewFair with fairness), SpecSimulator, SpecLocation, SpecFov.     *)
(*                                                                         *)
(* Numbers.  Instants are integers, milliseconds since the epoch, as in a  *)
(* JavaScript Date.  Angles in radians are integers counting units of      *)
(* pi/Pi, so that `x * (180 / Math.PI)` is x * 180 \div Pi; angles in      *)
(* degrees are integers.  Quaternion components are exact numbers of the   *)
(* form (a + b*sqrt(2)) / 2^k.                                             *)
(***************************************************************************)
EXTENDS Integers, Sequences, FiniteSets, TLC

VARIABLES
    clock,        \* the wall clock, what `new Date()` returns
    zone,         \* the time zone of the environment (its DST rule)
    callArgs,     \* arguments of the last calculateSunTrajectory call
    trajectory,   \* SunTrajectory | null: the trajectory last built
    env,          \* the environment createARContent runs in
    content,      \* ARContent | null: the bundle createARContent returned
    scene,        \* the objects added to the THREE.Scene, in order
    orientation,  \* the DeviceOrientation sample last delivered
    screenAngle,  \* what getScreenOrientation() returns, in degrees
    convPath,     \* the code path that last converted the sample
    rotation,     \* what that path produced (a quaternion or an Euler triple)
    recovered,    \* what quaternionToDeviceOrientation made of `rotation`
    projection,   \* a sun position and the point sunPositionTo3D made of it
    previous,     \* the bundle of the createARContent call before the last
    failure,      \* the last call on which the ephemeris failed, and its outcome
    page,         \* the state of the page component (location, pending effect)
    listener,     \* an orientation listener, its start() calls and the window
    ticker,       \* the animation loop of ARScene and the camera it drives
    component,    \* a scene component: its scene, refs, effects and render loops
    simulator,    \* the simulated orientation of the editor and the last key
    storage       \* localStorage, geolocation and the lookups in flight

vars == <<clock, zone, callArgs, trajectory, env, content, scene,
          orientation, screenAngle, convPath, rotation,
          recovered, projection, previous, failure, page, listener, ticker,
          component, simulator, storage>>

trajectoryVars == <<clock, zone, callArgs>>
contentVars == <<env, content, scene>>
orientationVars == <<orientation, screenAngle, convPath, rotation>>
derivedVars == <<recovered, projection, previous>>
shellVars == <<failure, page, listener, ticker>>
editorVars == <<component, simulator, storage>>

\* JavaScript null, for values that are otherwise records.
Null == [kind |-> "null"]

\* The variables a specification does not use stay null.
InitDerived == recovered = Null /\ projection = Null /\ previous = Null
InitShell == failure = Null /\ page = Null /\ listener = Null /\ ticker = Null
InitEditor == component = Null /\ simulator = Null /\ storage = Null

(***************************************************************************)
(* Bounds of the model.                                                    *)
(***************************************************************************)
\* Calendar days 0..MaxDay are covered by the clock and the reference dates.
MaxDay == 1
\* Longest hand-made trajectory given to createARContent.
MaxLen == 3
\* The number of start() calls made on one orientation listener.
MaxStarts == 3
\* The number of prop changes (trajectory, size, overlay) a scene component sees.
MaxChanges == 4
\* The number of animation frames counted between two changes.
MaxFrames == 2
\* The number of key presses the simulated device receives.
MaxKeys == 2
\* The number of calls made on the location cache and the editor page.
MaxOps == 3

(***************************************************************************)
(* Time: JavaScript Date.                                                  *)
(***************************************************************************)
MinuteMs == 60 * 1000
HourMs == 60 * MinuteMs
DayMs == 24 * HourMs

\* An Invalid Date: its time value is NaN.
NaN == 0 - 1

\* Date >= Date and Date <= Date compare the time values; every comparison
\* with NaN is false.
DateGe(a, b) == a # NaN /\ b # NaN /\ a >= b
DateLe(a, b) == a # NaN /\ b # NaN /\ a <= b

\* Time zones: no DST, or one transition on day 1 at a local hour. A "spring"
\* zone moves local time forward by one hour, a "fall" zone back.
Zones ==
    {[kind |-> "none", hour |-> 0]}
    \cup {[kind |-> k, hour |-> h] : k \in {"spring", "fall"}, h \in {0, 2}}

OffsetBefore(z) == IF z.kind = "fall" THEN HourMs ELSE 0
OffsetAfter(z) == IF z.kind = "spring" THEN HourMs ELSE 0
\* The instant (UTC) of the zone's transition.
TransitionAt(z) == DayMs + z.hour * HourMs - OffsetBefore(z)

\* LocalTime(t): the local wall time of instant t.
LocalTime(t, z) ==
    IF z.kind = "none" THEN t
    ELSE IF t < TransitionAt(z) THEN t + OffsetBefore(z) ELSE t + OffsetAfter(z)

\* UTC(local): the instant of a local wall time. A wall time the transition
\* skips or repeats is read with the offset in force before the transition.
UTCOf(l, z) ==
    IF z.kind = "none" THEN l
    ELSE IF l - OffsetBefore(z) < TransitionAt(z) THEN l - OffsetBefore(z)
    ELSE IF l - OffsetAfter(z) >= TransitionAt(z) THEN l - OffsetAfter(z)
    ELSE l - OffsetBefore(z)

\* The local hour of an instant.
LocalHour(t, z) == (LocalTime(t, z) % DayMs) \div HourMs
\* The local calendar day of an instant.
LocalDay(t, z) == LocalTime(t, z) \div DayMs

\* time = new Date(date); time.setHours(hour, 0, 0, 0)
SetHours(date, hour, z) == UTCOf(LocalDay(date, z) * DayMs + hour * HourMs, z)

(***************************************************************************)
(* Angles.                                                                 *)
(***************************************************************************)
\* Math.PI, in units of the radian grid: an angle of Pi units is pi radians.
Pi == 12

\* radians * (180 / Math.PI)
RadToDeg(rad) == (rad * 180) \div Pi
\* (degrees * Math.PI) / 180
DegToRad(deg) == (deg * Pi) \div 180

Abs(x) == IF x < 0 THEN 0 - x ELSE x
Clamp(x, lo, hi) == IF x < lo THEN lo ELSE IF x > hi THEN hi ELSE x

(***************************************************************************)
(* The ephemeris collaborator (SunCalc), for three sites.                  *)
(***************************************************************************)
Locations ==
    { [latitude |-> 10, longitude |-> 0],
      [latitude |-> 34, longitude |-> 0 - 120],
      [latitude |-> 78, longitude |-> 15] }

\* Solar noon of the site, as an offset into the UTC day.
NoonOffset(loc) == 12 * HourMs - (loc.longitude \div 15) * HourMs
\* Half the length of the site's day; polar sites have no sunrise.
HalfDayHours(loc) == IF loc.latitude < 23 THEN 6 ELSE 7
IsPolar(loc) == loc.latitude > 66

\* SunCalc.getTimes(date, latitude, longitude): sunrise and sunset of the
\* date's day, Invalid Dates where the sun does not rise.
GetTimes(date, loc) ==
    LET noon == (date \div DayMs) * DayMs + NoonOffset(loc)
    IN  IF IsPolar(loc)
        THEN [sunrise |-> NaN, sunset |-> NaN]
        ELSE [sunrise |-> noon - HalfDayHours(loc) * HourMs,
              sunset |-> noon + HalfDayHours(loc) * HourMs]

\* The hour angle of the sun, in grid units: 0 at solar noon, -Pi..Pi-1.
HourAngle(t, loc) ==
    LET h == ((t - NoonOffset(loc)) \div HourMs) % 24
    IN  IF h >= 12 THEN h - 24 ELSE h

\* SunCalc.getPosition(time, latitude, longitude): azimuth in [-pi, pi]
\* measured from South, altitude in [-pi/2, pi/2], both in radians. At the
\* tropical site the sun culminates due North, where atan2 returns +pi.
GetPosition(t, loc) ==
    LET H == HourAngle(t, loc)
    IN  [azimuth |->
            IF loc.latitude < 23
            THEN (IF H >= 0 THEN Pi - H ELSE 0 - Pi - H)
            ELSE H,
         altitude |->
            IF IsPolar(loc)
            THEN 3 - (Abs(H) \div 6)
            ELSE Clamp(HalfDayHours(loc) - Abs(H), 0 - (Pi \div 2), Pi \div 2)]

(***************************************************************************)
(* calculateSunTrajectory                                                  *)
(***************************************************************************)
\* The conversion applied to every ephemeris result: degrees, 0 = North.
ConvertPosition(position, time) ==
    [azimuth |-> RadToDeg(position.azimuth) + 180,
     altitude |-> RadToDeg(position.altitude),
     time |-> time]

\* One pass of the loop `for (hour = 0; hour < 24; hour++)`.
HourlyPosition(loc, date, hour, z) ==
    LET time == SetHours(date, hour, z)
    IN  ConvertPosition(GetPosition(time, loc), time)

\* The number of samples: hour = 0..23.
HoursPerDay == 24

HourlyPositions(loc, date, z) ==
    [i \in 1..HoursPerDay |-> HourlyPosition(loc, date, i - 1, z)]

\* A faulty variant: the lower bound exclusive (now > sunrise).
InDaylight_strict(now, sunrise, sunset) ==
    DateGe(now, sunrise) /\ now # sunrise /\ DateLe(now, sunset)

\* if (now >= sunrise && now <= sunset)
InDaylight(now, sunrise, sunset) ==
    DateGe(now, sunrise) /\ DateLe(now, sunset)

calculateSunTrajectory(loc, date, now, z) ==
    LET times == GetTimes(date, loc)
    IN  [positions |-> HourlyPositions(loc, date, z),
         sunrise |-> times.sunrise,
         sunset |-> times.sunset,
         currentPosition |->
            IF InDaylight(now, times.sunrise, times.sunset)
            THEN ConvertPosition(GetPosition(now, loc), now)
            ELSE Null]

(***************************************************************************)
(* The sampler as a state machine: the clock runs, and the page (or any    *)
(* caller of the exported function) builds a trajectory.                   *)
(***************************************************************************)
\* The instants the clock visits: around every sunrise and sunset, and a
\* few hours of each day.
ClockOffsets ==
    UNION { { GetTimes(0, loc).sunrise - 1000, GetTimes(0, loc).sunrise,
              GetTimes(0, loc).sunset, GetTimes(0, loc).sunset + 1 }
            : loc \in {l \in Locations : ~IsPolar(l)} }
    \cup {0, 12 * HourMs}

ClockInstants == { day * DayMs + o : day \in 0..MaxDay, o \in ClockOffsets }

\* Reference dates a caller passes explicitly.
ReferenceDates == { day * DayMs + 10 * HourMs + 30 * MinuteMs : day \in 0..MaxDay }

NoArgs == [kind |-> "none"]

InitOther ==
    /\ env = [hasDocument |-> TRUE, hasContext |-> TRUE]
    /\ content = Null
    /\ scene = <<>>
    /\ orientation = Null
    /\ screenAngle = 0
    /\ convPath = "none"
    /\ rotation = Null
    /\ InitDerived
    /\ InitShell
    /\ InitEditor

\* The trajectory, content and orientation variables where they are unused.
InitNoTrajectory ==
    /\ clock = 0
    /\ zone = [kind |-> "none", hour |-> 0]
    /\ callArgs = NoArgs
    /\ trajectory = Null
InitNoContent ==
    /\ env = [hasDocument |-> TRUE, hasContext |-> TRUE]
    /\ content = Null
    /\ scene = <<>>
InitNoOrientation ==
    /\ orientation = Null
    /\ screenAngle = 0
    /\ convPath = "none"
    /\ rotation = Null

InitTrajectory ==
    /\ clock \in { o : o \in ClockOffsets }
    /\ zone \in Zones
    /\ callArgs = NoArgs
    /\ trajectory = Null
    /\ InitOther

\* Time passes.
Tick ==
    /\ \E t \in ClockInstants : t > clock /\ clock' = t
    /\ UNCHANGED <<zone, callArgs, trajectory, contentVars, orientationVars, derivedVars, shellVars, editorVars>>

\* page.tsx: calculateSunTrajectory(location), date defaulting to new Date().
CalculateToday ==
    /\ \E loc \in Locations :
        /\ callArgs' = [location |-> loc, date |-> clock, now |-> clock]
        /\ trajectory' = calculateSunTrajectory(loc, clock, clock, zone)
    /\ UNCHANGED <<clock, zone, contentVars, orientationVars, derivedVars, shellVars, editorVars>>

\* calculateSunTrajectory(location, date) with an explicit reference date.
CalculateForDate ==
    /\ \E loc \in Locations, date \in ReferenceDates :
        /\ callArgs' = [location |-> loc, date |-> date, now |-> clock]
        /\ trajectory' = calculateSunTrajectory(loc, date, clock, zone)
    /\ UNCHANGED <<clock, zone, contentVars, orientationVars, derivedVars, shellVars, editorVars>>

NextTrajectory == Tick \/ CalculateToday \/ CalculateForDate

SpecTrajectory == InitTrajectory /\ [][NextTrajectory]_vars

Called == callArgs # NoArgs

C7_HourlyGrid ==
    Called =>
        /\ Len(trajectory.positions) = 24
        /\ \A h \in 0..23 :
                LocalTime(trajectory.positions[h + 1].time, zone)
                    = LocalDay(callArgs.date, zone) * DayMs + h * HourMs
        /\ \A h \in 1..23 :
                trajectory.positions[h].time < trajectory.positions[h + 1].time

\* The ranges of the SunPosition data model.
PositionInRange(p) ==
    /\ 0 <= p.azimuth /\ p.azimuth < 360
    /\ 0 - 90 <= p.altitude /\ p.altitude <= 90

\* C8: every SunPosition of the trajectory (each hourly entry and
\* currentPosition) has azimuth in [0, 360) and altitude in [-90, 90].
C8_AnglesInRange ==
    Called =>
        /\ \A i \in 1..Len(trajectory.positions) :
                PositionInRange(trajectory.positions[i])
        /\ trajectory.currentPosition # Null
                => PositionInRange(trajectory.currentPosition)

(***************************************************************************)
(* sunPositionTo3D                                                         *)
(***************************************************************************)
\* Math.sin on the radian grid (steps of 15 degrees), in units of 1/10^4.
TrigScale == 10 ^ 4

SinQuarter == <<0, 2588, 5000, 7071, 8660, 9659, 10000>>

Sin(x) ==
    LET r == x % (2 * Pi)
    IN  IF r <= Pi \div 2 THEN SinQuarter[r + 1]
        ELSE IF r <= Pi THEN SinQuarter[Pi - r + 1]
        ELSE IF r <= Pi + Pi \div 2 THEN 0 - SinQuarter[r - Pi + 1]
        ELSE 0 - SinQuarter[2 * Pi - r + 1]

Cos(x) == Sin(x + Pi \div 2)

\* The point on the unit sphere, each component in units of 1/10^8.
sunPositionTo3D(position) ==
    LET azimuthRad == DegToRad(position.azimuth - 180)
        altitudeRad == DegToRad(position.altitude)
    IN  [x |-> Cos(altitudeRad) * Sin(azimuthRad),
         y |-> Sin(altitudeRad) * TrigScale,
         z |-> Cos(altitudeRad) * Cos(azimuthRad)]

(***************************************************************************)
(* createARContent                                                         *)
(***************************************************************************)
\* new THREE.Vector3(pos3D.x * 10, pos3D.y * 10, pos3D.z * 10)
ScaledPoint(position) ==
    LET pos3D == sunPositionTo3D(position)
    IN  [x |-> pos3D.x * 10, y |-> pos3D.y * 10, z |-> pos3D.z * 10]

\* A faulty variant: altitude 0 counted as below the horizon.
IsAboveHorizon_strict(position) == position.altitude > 0

\* if (position.altitude >= 0)
IsAboveHorizon(position) == position.altitude >= 0

\* A faulty variant: the first sample counted as interior.
IsInteriorIndex_first(index, length) == index >= 0 /\ index < length - 1

\* if (index > 0 && index < trajectory.positions.length - 1)
IsInteriorIndex(index, length) == index > 0 /\ index < length - 1

\* A faulty variant: unshift instead of push.
Push_front(points, point) == <<point>> \o points

\* points.push(point)
Push(points, point) == Append(points, point)

\* The body of trajectory.positions.forEach((position, index) => ...):
\* acc holds aboveHorizonPoints, belowHorizonPoints and the markers so far.
ForEachBody(acc, position, index, length) ==
    LET point == ScaledPoint(position)
    IN  IF IsAboveHorizon(position)
        THEN [above |-> Push(acc.above, point),
              below |-> acc.below,
              markers |->
                IF IsInteriorIndex(index, length)
                THEN Append(acc.markers, [type |-> "Mesh", radius |-> 1, position |-> point])
                ELSE acc.markers]
        ELSE [above |-> acc.above,
              below |-> Push(acc.below, point),
              markers |-> acc.markers]

RECURSIVE ForEachPosition(_, _, _)
ForEachPosition(positions, index, acc) ==
    IF index >= Len(positions) THEN acc
    ELSE ForEachPosition(positions, index + 1,
                         ForEachBody(acc, positions[index + 1], index, Len(positions)))

\* A faulty variant: the arrow added only where its label can be drawn.
createCompassArrow_labelled(direction, position, color, label, e) ==
    IF e.hasDocument /\ e.hasContext
    THEN << [type |-> "Sprite", label |-> label,
             position |-> [x |-> position.x * 10, y |-> 3, z |-> position.z * 10]],
            [type |-> "ArrowHelper", direction |-> direction, color |-> color,
             origin |-> [x |-> position.x * 10, y |-> 0 - 1, z |-> position.z * 10]] >>
    ELSE << >>

\* createCompassArrow(direction, position, color, label): the children it
\* adds to the compass group: the label sprite where a document and a 2d
\* canvas context exist, and the arrow. Lengths are in tenths of a scene unit.
createCompassArrow(direction, position, color, label, e) ==
    (IF e.hasDocument /\ e.hasContext
     THEN << [type |-> "Sprite", label |-> label,
              position |-> [x |-> position.x * 10, y |-> 3, z |-> position.z * 10]] >>
     ELSE << >>)
    \o << [type |-> "ArrowHelper", direction |-> direction, color |-> color,
           origin |-> [x |-> position.x * 10, y |-> 0 - 1, z |-> position.z * 10]] >>

Vector3(x, y, z) == [x |-> x, y |-> y, z |-> z]

\* The four createCompassArrow calls, in order.
Compass(e) ==
    createCompassArrow(Vector3(0, 0, 1), Vector3(0, 0, 3), "red", "N", e)
    \o createCompassArrow(Vector3(1, 0, 0), Vector3(3, 0, 0), "green", "E", e)
    \o createCompassArrow(Vector3(0, 0, 0 - 1), Vector3(0, 0, 0 - 3), "blue", "S", e)
    \o createCompassArrow(Vector3(0 - 1, 0, 0), Vector3(0 - 3, 0, 0), "yellow", "W", e)

\* A faulty variant: only a current position above the horizon counts.
HasCurrentPosition_aboveOnly(traj) ==
    traj.currentPosition # Null /\ traj.currentPosition.altitude >= 0

\* if (trajectory.currentPosition)
HasCurrentPosition(traj) == traj.currentPosition # Null

\* The current-position indicator, or null.
CurrentIndicator(traj) ==
    IF HasCurrentPosition(traj)
    THEN [type |-> "Mesh", radius |-> 2, position |-> ScaledPoint(traj.currentPosition)]
    ELSE Null

\* The ARContent record the function returns.
createARContent(traj, e) ==
    LET acc == ForEachPosition(traj.positions, 0,
                               [above |-> <<>>, below |-> <<>>, markers |-> <<>>])
    IN  [aboveHorizonArc |-> [type |-> "Line", points |-> acc.above],
         belowHorizonArc |-> [type |-> "Line", points |-> acc.below],
         markers |-> [type |-> "Group", children |-> acc.markers],
         currentIndicator |-> CurrentIndicator(traj),
         horizonPlane |-> [type |-> "Mesh", width |-> 100, height |-> 100],
         compass |-> [type |-> "Group", children |-> Compass(e)]]

\* The scene.add calls of one createARContent call, in order.
SceneAdds(c) ==
    << [role |-> "aboveHorizonArc", object |-> c.aboveHorizonArc],
       [role |-> "belowHorizonArc", object |-> c.belowHorizonArc],
       [role |-> "markers", object |-> c.markers],
       [role |-> "horizonPlane", object |-> c.horizonPlane],
       [role |-> "compass", object |-> c.compass] >>
    \o (IF c.currentIndicator # Null
        THEN << [role |-> "currentIndicator", object |-> c.currentIndicator] >>
        ELSE << >>)

(***************************************************************************)
(* The content builder as a state machine: a trajectory arrives and        *)
(* createARContent(scene, trajectory, THREE) is called on it.              *)
(***************************************************************************)
\* Samples of hand-made trajectories: on, above and below the horizon.
SampleAltitudes == {0 - 15, 0, 15}
SampleAzimuths == {90, 225}

HandMadePositions ==
    UNION { [1..n -> [azimuth : SampleAzimuths, altitude : SampleAltitudes]]
            : n \in 0..MaxLen }

\* The samples with their hourly time stamps.
Stamped(positions) ==
    [i \in 1..Len(positions) |->
        [azimuth |-> positions[i].azimuth,
         altitude |-> positions[i].altitude,
         time |-> (i - 1) * HourMs]]

HandMadeTrajectories ==
    { [positions |-> Stamped(ps),
       sunrise |-> 6 * HourMs,
       sunset |-> 18 * HourMs,
       currentPosition |-> cp]
      : ps \in HandMadePositions,
        cp \in {Null,
                [azimuth |-> 135, altitude |-> 30, time |-> 9 * HourMs],
                [azimuth |-> 300, altitude |-> 0 - 30, time |-> 9 * HourMs]} }

\* Trajectories the sampler builds, by day and by night.
SampledTrajectories ==
    { calculateSunTrajectory(loc, now, now, [kind |-> "none", hour |-> 0])
      : loc \in Locations, now \in {0, 12 * HourMs, 20 * HourMs} }

Environments ==
    { [hasDocument |-> TRUE, hasContext |-> TRUE],
      [hasDocument |-> TRUE, hasContext |-> FALSE],
      [hasDocument |-> FALSE, hasContext |-> FALSE] }

InitContent ==
    /\ trajectory \in HandMadeTrajectories \cup SampledTrajectories
    /\ env \in Environments
    /\ content = Null
    /\ scene = <<>>
    /\ clock = 0
    /\ zone = [kind |-> "none", hour |-> 0]
    /\ callArgs = NoArgs
    /\ orientation = Null
    /\ screenAngle = 0
    /\ convPath = "none"
    /\ rotation = Null
    /\ InitDerived
    /\ InitShell
    /\ InitEditor

\* A faulty variant: the scene emptied before the new objects are added.
AddToScene_replacing(objects, adds) == adds

\* scene.add(object) for each object of a bundle: the scene keeps what it had.
AddToScene(objects, adds) == objects \o adds

\* createARContent(scene, trajectory, THREE) on an empty scene.
CreateARContent ==
    /\ content = Null
    /\ content' = createARContent(trajectory, env)
    /\ scene' = AddToScene(scene, SceneAdds(content'))
    /\ UNCHANGED <<trajectory, env, trajectoryVars, orientationVars, derivedVars, shellVars, editorVars>>

\* createARContent(scene, trajectory, THREE) once more, on the same scene
\* and the same trajectory.
CreateARContentAgain ==
    /\ content # Null
    /\ previous = Null
    /\ previous' = [bundle |-> content, scene |-> scene]
    /\ content' = createARContent(trajectory, env)
    /\ scene' = AddToScene(scene, SceneAdds(content'))
    /\ UNCHANGED <<trajectory, env, trajectoryVars, orientationVars, recovered,
                   projection, shellVars, editorVars>>

NextContent == CreateARContent \/ CreateARContentAgain

SpecContent == InitContent /\ [][NextContent]_vars

Built == content # Null

AbovePoints == content.aboveHorizonArc.points
BelowPoints == content.belowHorizonArc.points
Markers == content.markers.children

\* The indices (1-based) of the samples on each side of the horizon.
AboveIndices == { i \in 1..Len(trajectory.positions) : trajectory.positions[i].altitude >= 0 }
BelowIndices == { i \in 1..Len(trajectory.positions) : trajectory.positions[i].altitude < 0 }

\* The unit-sphere point of a sample times the display factor 10.
PointOf(p) ==
    [x |-> 10 * Cos(DegToRad(p.altitude)) * Sin(DegToRad(p.azimuth - 180)),
     y |-> 10 * Sin(DegToRad(p.altitude)) * TrigScale,
     z |-> 10 * Cos(DegToRad(p.altitude)) * Cos(DegToRad(p.azimuth - 180))]

\* The n-th smallest element of a set of indices.
Nth(S, n) == CHOOSE i \in S : Cardinality({j \in S : j < i}) = n - 1

\* C2: every sample is in exactly one polyline, the above one iff its
\* altitude is >= 0, so the two lengths add up to the number of samples.
C2_PartitionByAltitude ==
    Built =>
        /\ Len(AbovePoints) = Cardinality(AboveIndices)
        /\ Len(BelowPoints) = Cardinality(BelowIndices)
        /\ Len(AbovePoints) + Len(BelowPoints) = Len(trajectory.positions)
        /\ \A i \in AboveIndices :
                \E k \in 1..Len(AbovePoints) : AbovePoints[k] = PointOf(trajectory.positions[i])
        /\ \A i \in BelowIndices :
                \E k \in 1..Len(BelowPoints) : BelowPoints[k] = PointOf(trajectory.positions[i])

\* A 24-sample trajectory with all altitudes positive: 24 points above, none below.
C2_Witness ==
    /\ Built
    /\ Len(trajectory.positions) = 24
    /\ \A i \in 1..24 : trajectory.positions[i].altitude > 0
    /\ Len(AbovePoints) = 24
    /\ Len(BelowPoints) = 0

\* C3: each polyline lists its samples in the order of trajectory.positions:
\* its k-th point is the point of the k-th sample on that side of the horizon.
C3_OrderPreserved ==
    Built =>
        /\ Len(AbovePoints) = Cardinality(AboveIndices)
        /\ Len(BelowPoints) = Cardinality(BelowIndices)
        /\ \A k \in 1..Cardinality(AboveIndices) :
                AbovePoints[k] = PointOf(trajectory.positions[Nth(AboveIndices, k)])
        /\ \A k \in 1..Cardinality(BelowIndices) :
                BelowPoints[k] = PointOf(trajectory.positions[Nth(BelowIndices, k)])

\* The sun rises and sets within the samples: both polylines hold several
\* points and adjacent samples fall on opposite sides of the horizon.
C3_Witness ==
    /\ Built
    /\ Len(AbovePoints) >= 2
    /\ Len(BelowPoints) >= 2
    /\ AbovePoints[1] # AbovePoints[2]
    /\ \E i \in 1..(Len(trajectory.positions) - 1) :
            /\ trajectory.positions[i].altitude < 0
            /\ trajectory.positions[i + 1].altitude >= 0

\* The 0-based indices of the samples that get an hourly marker.
InteriorAbove ==
    { i \in 0..(Len(trajectory.positions) - 1) :
        /\ 0 < i /\ i < Len(trajectory.positions) - 1
        /\ trajectory.positions[i + 1].altitude >= 0 }

\* C4: one marker per interior above-horizon sample, at its scaled point,
\* in sample order; none for the first, the last or a below-horizon sample.
C4_InteriorMarkers ==
    Built =>
        /\ Len(Markers) = Cardinality(InteriorAbove)
        /\ \A k \in 1..Cardinality(InteriorAbove) :
                Markers[k].position = PointOf(trajectory.positions[Nth(InteriorAbove, k) + 1])
        /\ Len(trajectory.positions) < 3 => Len(Markers) = 0

\* Markers exist, while the first sample is above the horizon and unmarked
\* and some interior sample is below the horizon.
C4_Witness ==
    /\ Built
    /\ Len(Markers) >= 1
    /\ trajectory.positions[1].altitude >= 0
    /\ Len(Markers) < Len(AbovePoints)
    /\ \E i \in 2..(Len(trajectory.positions) - 1) : trajectory.positions[i].altitude < 0

\* The places in the scene of the objects the last call added.
AddedByLastCall ==
    IF previous = Null THEN 1..Len(scene) ELSE (Len(previous.scene) + 1)..Len(scene)

\* The current-position markers among the objects the call added to the scene.
CurrentMarkersInScene == { k \in AddedByLastCall : scene[k].role = "currentIndicator" }

\* C5: currentIndicator is non-null, and exactly one current-position marker
\* is in the scene, iff trajectory.currentPosition is non-null; otherwise none.
C5_CurrentIndicatorIff ==
    Built =>
        /\ (content.currentIndicator # Null) <=> (trajectory.currentPosition # Null)
        /\ Cardinality(CurrentMarkersInScene)
                = (IF trajectory.currentPosition # Null THEN 1 ELSE 0)
        /\ trajectory.currentPosition # Null =>
                /\ content.currentIndicator.position = PointOf(trajectory.currentPosition)
                /\ \A k \in CurrentMarkersInScene : scene[k].object = content.currentIndicator

\* A current position below the horizon still gets its marker.
C5_Witness ==
    /\ Built
    /\ trajectory.currentPosition # Null
    /\ trajectory.currentPosition.altitude < 0
    /\ content.currentIndicator # Null

\* The compass arrows, in the order they were added.
CompassArrows == SelectSeq(content.compass.children, LAMBDA o : o.type = "ArrowHelper")

\* C6: exactly four compass arrows, N, E, S, W at (0,0,1), (1,0,0),
\* (0,0,-1), (-1,0,0), whatever the trajectory and the environment.
C6_FourCompassMarkers ==
    Built =>
        /\ Len(CompassArrows) = 4
        /\ CompassArrows[1].direction = [x |-> 0, y |-> 0, z |-> 1]
        /\ CompassArrows[2].direction = [x |-> 1, y |-> 0, z |-> 0]
        /\ CompassArrows[3].direction = [x |-> 0, y |-> 0, z |-> 0 - 1]
        /\ CompassArrows[4].direction = [x |-> 0 - 1, y |-> 0, z |-> 0]
        /\ \A k \in 1..4 :
                /\ CompassArrows[k].origin.x = 30 * CompassArrows[k].direction.x
                /\ CompassArrows[k].origin.z = 30 * CompassArrows[k].direction.z
        /\ \E k \in 1..Len(scene) : scene[k].object = content.compass

\* An empty trajectory built where no document exists still has its compass.
C6_Witness ==
    /\ Built
    /\ trajectory.positions = <<>>
    /\ ~env.hasDocument
    /\ Len(CompassArrows) = 4

(***************************************************************************)
(* Exact numbers (a + b*sqrt(2)) / 2^k, for the quaternion algebra at      *)
(* angles that are multiples of 90 degrees (half angles of 45 degrees).    *)
(***************************************************************************)
RECURSIVE Reduce(_, _, _)
Reduce(a, b, k) ==
    IF k > 0 /\ a % 2 = 0 /\ b % 2 = 0
    THEN Reduce(a \div 2, b \div 2, k - 1)
    ELSE [a |-> a, b |-> b, k |-> k]

Zero == Reduce(0, 0, 0)
One == Reduce(1, 0, 0)
\* Math.sqrt(0.5)
SqrtHalf == Reduce(0, 1, 1)

Max(m, n) == IF m >= n THEN m ELSE n

Plus(p, q) ==
    LET k == Max(p.k, q.k)
    IN  Reduce(p.a * 2 ^ (k - p.k) + q.a * 2 ^ (k - q.k),
               p.b * 2 ^ (k - p.k) + q.b * 2 ^ (k - q.k), k)
Neg(p) == [a |-> 0 - p.a, b |-> 0 - p.b, k |-> p.k]
Minus(p, q) == Plus(p, Neg(q))
Times(p, q) == Reduce(p.a * q.a + 2 * p.b * q.b, p.a * q.b + p.b * q.a, p.k + q.k)

\* Math.sin(x / 2) and Math.cos(x / 2) for x a multiple of pi/2.
SinHalfTable == <<Zero, SqrtHalf, One, SqrtHalf, Zero, Neg(SqrtHalf), Neg(One), Neg(SqrtHalf)>>
SinHalf(x) == SinHalfTable[((x \div (Pi \div 2)) % 8) + 1]
CosHalf(x) == SinHalf(x + Pi)

(***************************************************************************)
(* THREE.Quaternion, as setObjectQuaternion uses it.                       *)
(***************************************************************************)
Quaternion(x, y, z, w) == [x |-> x, y |-> y, z |-> z, w |-> w]

\* quaternion.setFromEuler(euler) for euler.set(x, y, z, 'YXZ')
SetFromEulerYXZ(x, y, z) ==
    LET c1 == CosHalf(x)  c2 == CosHalf(y)  c3 == CosHalf(z)
        s1 == SinHalf(x)  s2 == SinHalf(y)  s3 == SinHalf(z)
    IN  Quaternion(
            Plus(Times(Times(s1, c2), c3), Times(Times(c1, s2), s3)),
            Minus(Times(Times(c1, s2), c3), Times(Times(s1, c2), s3)),
            Minus(Times(Times(c1, c2), s3), Times(Times(s1, s2), c3)),
            Plus(Times(Times(c1, c2), c3), Times(Times(s1, s2), s3)))

\* a.multiply(b): the product a * b
Multiply(a, b) ==
    Quaternion(
        Minus(Plus(Plus(Times(a.x, b.w), Times(a.w, b.x)), Times(a.y, b.z)), Times(a.z, b.y)),
        Minus(Plus(Plus(Times(a.y, b.w), Times(a.w, b.y)), Times(a.z, b.x)), Times(a.x, b.z)),
        Minus(Plus(Plus(Times(a.z, b.w), Times(a.w, b.z)), Times(a.x, b.y)), Times(a.y, b.x)),
        Minus(Minus(Minus(Times(a.w, b.w), Times(a.x, b.x)), Times(a.y, b.y)), Times(a.z, b.z)))

\* q.setFromAxisAngle(axis, angle), axis a unit vector with integer components
SetFromAxisAngle(axis, angle) ==
    LET s == SinHalf(angle)
        Scale(c) == IF c = 0 THEN Zero ELSE IF c = 1 THEN s ELSE Neg(s)
    IN  Quaternion(Scale(axis.x), Scale(axis.y), Scale(axis.z), CosHalf(angle))

(***************************************************************************)
(* setObjectQuaternion, angles in radians                                  *)
(***************************************************************************)
\* A faulty variant: the -90 degree correction multiplied on the left.
setObjectQuaternion_premultiplied(alpha, beta, gamma, orient) ==
    LET zee == Vector3(0, 0, 1)
        q1 == Quaternion(Neg(SqrtHalf), Zero, Zero, SqrtHalf)
    IN  Multiply(Multiply(q1, SetFromEulerYXZ(beta, alpha, 0 - gamma)),
                 SetFromAxisAngle(zee, 0 - orient))

\* A faulty variant: the -90 degree correction (-1, 0, 0, 1), without the
\* Math.sqrt(0.5) that makes it a unit quaternion.
setObjectQuaternion_unnormalised(alpha, beta, gamma, orient) ==
    LET zee == Vector3(0, 0, 1)
        q1 == Quaternion(Neg(One), Zero, Zero, One)
    IN  Multiply(Multiply(SetFromEulerYXZ(beta, alpha, 0 - gamma), q1),
                 SetFromAxisAngle(zee, 0 - orient))

\* euler.set(beta, alpha, -gamma, 'YXZ'); quaternion.setFromEuler(euler);
\* quaternion.multiply(q1); quaternion.multiply(q0.setFromAxisAngle(zee, -orient))
setObjectQuaternion(alpha, beta, gamma, orient) ==
    LET zee == Vector3(0, 0, 1)
        q1 == Quaternion(Neg(SqrtHalf), Zero, Zero, SqrtHalf)
        fromEuler == SetFromEulerYXZ(beta, alpha, 0 - gamma)
        corrected == Multiply(fromEuler, q1)
    IN  Multiply(corrected, SetFromAxisAngle(zee, 0 - orient))

(***************************************************************************)
(* The callers: from a DeviceOrientation sample to a rotation.             *)
(* An axis of a sample is <<>> (null) or <<degrees>>.                      *)
(***************************************************************************)
NullAxis == << >>

\* orientation.alpha !== null ? (orientation.alpha * Math.PI) / 180 : 0
AxisRadians(axis) == IF axis # NullAxis THEN DegToRad(axis[1]) ELSE 0

\* ((orientation.alpha ?? 0) * Math.PI) / 180
AxisOrZeroRadians(axis) == DegToRad(IF axis # NullAxis THEN axis[1] ELSE 0)

\* ARScene, animate: the camera quaternion of one tick.
ARSceneRotation(o, screen) ==
    setObjectQuaternion(AxisRadians(o.alpha), AxisRadians(o.beta), AxisRadians(o.gamma),
                        DegToRad(screen))

\* ARCameraView, ThirdPersonView, DeviceSimulator, DeviceFOVIndicator.
EditorRotation(o) ==
    setObjectQuaternion(AxisOrZeroRadians(o.alpha), AxisOrZeroRadians(o.beta),
                        AxisOrZeroRadians(o.gamma), 0)

\* deviceOrientationToEuler: beta carries the -90 degree adjustment.
deviceOrientationToEuler(o) ==
    LET alpha == IF o.alpha # NullAxis THEN DegToRad(o.alpha[1]) ELSE 0
        beta == IF o.beta # NullAxis THEN DegToRad(o.beta[1] - 90) ELSE 0
        gamma == IF o.gamma # NullAxis THEN DegToRad(o.gamma[1]) ELSE 0
    IN  [x |-> beta, y |-> gamma, z |-> alpha]

(***************************************************************************)
(* The inverse mapper of ThirdPersonView: from a quaternion back to a      *)
(* DeviceOrientation sample.                                               *)
(***************************************************************************)
\* The sign of an exact number: -1, 0 or 1.
Sgn(p) ==
    IF p.a = 0 /\ p.b = 0 THEN 0
    ELSE IF p.a >= 0 /\ p.b >= 0 THEN 1
    ELSE IF p.a <= 0 /\ p.b <= 0 THEN 0 - 1
    ELSE IF p.a > 0 THEN (IF p.a * p.a > 2 * p.b * p.b THEN 1 ELSE 0 - 1)
    ELSE (IF 2 * p.b * p.b > p.a * p.a THEN 1 ELSE 0 - 1)

\* Math.asin(v) for v one of -1, 0, 1, the values a rotation by multiples
\* of 90 degrees puts in its matrix.
Asin(v) == Sgn(v) * (Pi \div 2)

\* Math.atan2(y, x) for y and x among -1, 0, 1, not both 0 unless the
\* matrix is degenerate; a zero is taken as +0.
Atan2(y, x) ==
    LET sy == Sgn(y)  sx == Sgn(x)
    IN  IF sy = 0 THEN (IF sx >= 0 THEN 0 ELSE Pi)
        ELSE IF sx = 0 THEN sy * (Pi \div 2)
        ELSE IF sx > 0 THEN sy * (Pi \div 4)
        ELSE sy * ((3 * Pi) \div 4)

\* new THREE.Euler().setFromQuaternion(q, 'YXZ'): the rotation matrix of q
\* (makeRotationFromQuaternion), then the angles read from it.
SetFromQuaternionYXZ(q) ==
    LET x2 == Plus(q.x, q.x)  y2 == Plus(q.y, q.y)  z2 == Plus(q.z, q.z)
        xx == Times(q.x, x2)  xy == Times(q.x, y2)  xz == Times(q.x, z2)
        yy == Times(q.y, y2)  yz == Times(q.y, z2)  zz == Times(q.z, z2)
        wx == Times(q.w, x2)  wy == Times(q.w, y2)  wz == Times(q.w, z2)
        m11 == Minus(One, Plus(yy, zz))
        m21 == Plus(xy, wz)
        m31 == Minus(xz, wy)
        m22 == Minus(One, Plus(xx, zz))
        m13 == Plus(xz, wy)
        m23 == Minus(yz, wx)
        m33 == Minus(One, Plus(xx, yy))
    IN  IF m23 # One /\ m23 # Neg(One)
        THEN [x |-> Asin(Neg(m23)), y |-> Atan2(m13, m33), z |-> Atan2(m21, m22)]
        ELSE [x |-> Asin(Neg(m23)), y |-> Atan2(Neg(m31), m11), z |-> 0]

\* q1.clone().invert(): the conjugate
Invert(q) == Quaternion(Neg(q.x), Neg(q.y), Neg(q.z), q.w)

\* q = quaternion.clone(); q.multiply(q1Inverse);
\* euler = new THREE.Euler().setFromQuaternion(q, 'YXZ');
\* { alpha: radToDeg(euler.y), beta: radToDeg(euler.x), gamma: -radToDeg(euler.z) }
quaternionToDeviceOrientation(quaternion) ==
    LET q1 == Quaternion(Neg(SqrtHalf), Zero, Zero, SqrtHalf)
        q == Multiply(quaternion, Invert(q1))
        euler == SetFromQuaternionYXZ(q)
    IN  [alpha |-> <<RadToDeg(euler.y)>>,
         beta |-> <<RadToDeg(euler.x)>>,
         gamma |-> <<0 - RadToDeg(euler.z)>>]

(***************************************************************************)
(* The converters as a state machine: a sample and a screen rotation are   *)
(* given, and each code path turns the sample into a rotation.             *)
(***************************************************************************)
AlphaValues == {NullAxis, <<0>>, <<90>>, <<180>>, <<270>>}
BetaValues == {NullAxis, <<0 - 180>>, <<0 - 90>>, <<0>>, <<90>>, <<180>>}
GammaValues == {NullAxis, <<0 - 90>>, <<0>>, <<90>>}

OrientationSamples == [alpha : AlphaValues, beta : BetaValues, gamma : GammaValues]

\* screen.orientation.angle, or the legacy window.orientation
ScreenAngles == {0, 90, 180, 270, 0 - 90}

EditorPaths == {"ARCameraView", "ThirdPersonView", "DeviceSimulator", "DeviceFOVIndicator"}

InitOrientation ==
    /\ orientation \in OrientationSamples
    /\ screenAngle \in ScreenAngles
    /\ convPath = "none"
    /\ rotation = Null
    /\ InitDerived
    /\ InitShell
    /\ InitEditor
    /\ clock = 0
    /\ zone = [kind |-> "none", hour |-> 0]
    /\ callArgs = NoArgs
    /\ trajectory = Null
    /\ env = [hasDocument |-> TRUE, hasContext |-> TRUE]
    /\ content = Null
    /\ scene = <<>>

\* ARScene.tsx, animate: one tick with an orientation present.
ARSceneTick ==
    /\ orientation # Null
    /\ rotation' = ARSceneRotation(orientation, screenAngle)
    /\ convPath' = "ARScene"
    /\ UNCHANGED <<orientation, screenAngle, trajectory, trajectoryVars, contentVars, derivedVars, shellVars, editorVars>>

\* The orientation effect of an editor view: screen rotation 0.
EditorViewEffect ==
    /\ orientation # Null
    /\ \E path \in EditorPaths :
        /\ rotation' = EditorRotation(orientation)
        /\ convPath' = path
    /\ UNCHANGED <<orientation, screenAngle, trajectory, trajectoryVars, contentVars, derivedVars, shellVars, editorVars>>

\* lib/orientation.ts: deviceOrientationToEuler(orientation)
DeviceOrientationToEuler ==
    /\ orientation # Null
    /\ rotation' = deviceOrientationToEuler(orientation)
    /\ convPath' = "deviceOrientationToEuler"
    /\ UNCHANGED <<orientation, screenAngle, trajectory, trajectoryVars, contentVars, derivedVars, shellVars, editorVars>>

\* ThirdPersonView.tsx, handleKeyDown: the quaternion of the view read back
\* as a sample by quaternionToDeviceOrientation.
QuaternionToDeviceOrientation ==
    /\ convPath = "ThirdPersonView"
    /\ recovered = Null
    /\ recovered' = [quaternion |-> rotation,
                     orientation |-> quaternionToDeviceOrientation(rotation)]
    /\ UNCHANGED <<orientationVars, trajectory, trajectoryVars, contentVars,
                   projection, previous, shellVars, editorVars>>

NextOrientation ==
    \/ ARSceneTick
    \/ EditorViewEffect
    \/ DeviceOrientationToEuler
    \/ QuaternionToDeviceOrientation

SpecOrientation == InitOrientation /\ [][NextOrientation]_vars

\* The sample with every null axis set to 0.
ZeroIfNull(axis) == IF axis = NullAxis THEN <<0>> ELSE axis
ZeroFilled(o) ==
    [alpha |-> ZeroIfNull(o.alpha), beta |-> ZeroIfNull(o.beta), gamma |-> ZeroIfNull(o.gamma)]

\* What a path makes of a sample.
PathResult(path, o, screen) ==
    IF path = "ARScene" THEN ARSceneRotation(o, screen)
    ELSE IF path = "deviceOrientationToEuler" THEN deviceOrientationToEuler(o)
    ELSE EditorRotation(o)

\* C9: on every path a null axis is treated exactly as 0: the result for
\* the sample equals the result for the sample with its null axes set to 0.
C9_NullIsZero ==
    convPath # "none" =>
        rotation = PathResult(convPath, ZeroFilled(orientation), screenAngle)

\* Rotations about the scene axes by an angle in radians.
AboutX(angle) == SetFromAxisAngle(Vector3(1, 0, 0), angle)
AboutY(angle) == SetFromAxisAngle(Vector3(0, 1, 0), angle)
AboutZ(angle) == SetFromAxisAngle(Vector3(0, 0, 1), angle)

\* The sample's angles in radians, null as 0.
SampleAlpha == DegToRad(ZeroIfNull(orientation.alpha)[1])
SampleBeta == DegToRad(ZeroIfNull(orientation.beta)[1])
SampleGamma == DegToRad(ZeroIfNull(orientation.gamma)[1])

\* (Q_orient . Q_minus90X) . Q_screenCorrection
Composed(qOrient, screen) ==
    Multiply(Multiply(qOrient, AboutX(0 - (Pi \div 2))), AboutZ(0 - DegToRad(screen)))

\* C10 as claimed: Q_final = (Q_orient . Q_minus90X) . Q_screenCorrection
\* with Q_orient the intrinsic rotation pitch(beta) about X, then yaw(alpha)
\* about Y, then roll(-gamma) about Z.
C10_PitchYawRoll ==
    convPath = "ARScene" =>
        rotation = Composed(
            Multiply(Multiply(AboutX(SampleBeta), AboutY(SampleAlpha)), AboutZ(0 - SampleGamma)),
            screenAngle)

\* C10 amended: Q_final = (Q_orient . Q_minus90X) . Q_screenCorrection with
\* Q_orient the intrinsic rotation yaw(alpha) about Y, then pitch(beta)
\* about X, then roll(-gamma) about Z (Euler order 'YXZ'); the screen
\* correction is the identity when the screen rotation is 0.
C10_YawPitchRoll ==
    /\ convPath = "ARScene" =>
        rotation = Composed(
            Multiply(Multiply(AboutY(SampleAlpha), AboutX(SampleBeta)), AboutZ(0 - SampleGamma)),
            screenAngle)
    /\ (convPath \in EditorPaths \/ (convPath = "ARScene" /\ screenAngle = 0)) =>
        rotation =
            Multiply(
                Multiply(Multiply(AboutY(SampleAlpha), AboutX(SampleBeta)), AboutZ(0 - SampleGamma)),
                AboutX(0 - (Pi \div 2)))

\* A tick with yaw, pitch, roll and a screen rotation all non-zero.
C10_Witness ==
    /\ convPath = "ARScene"
    /\ orientation.alpha = <<90>>
    /\ orientation.beta = <<90>>
    /\ orientation.gamma = <<0 - 90>>
    /\ screenAngle = 90
    /\ rotation # Null

\* The sample has all three axes, in the ranges of a DeviceOrientation.
SampleInRange ==
    /\ orientation.alpha # NullAxis /\ orientation.alpha[1] >= 0 /\ orientation.alpha[1] < 360
    /\ orientation.beta # NullAxis /\ orientation.beta[1] >= 0 - 180 /\ orientation.beta[1] <= 180
    /\ orientation.gamma # NullAxis /\ orientation.gamma[1] >= 0 - 90 /\ orientation.gamma[1] <= 90

\* The gimbal-lock singularity of the 'YXZ' angles: pitch of +90 or -90.
GimbalLock == orientation.beta \in {<<90>>, <<0 - 90>>}

\* C11: for a sample (alpha, beta, gamma) in range and not at the gimbal
\* lock, quaternionToDeviceOrientation applied to the quaternion that
\* setObjectQuaternion builds at screen rotation 0 returns the same
\* (alpha, beta, gamma).
C11_RoundTrip ==
    (recovered # Null /\ SampleInRange /\ ~GimbalLock) =>
        /\ recovered.quaternion = EditorRotation(orientation)
        /\ recovered.orientation = orientation

\* x^2 + y^2 + z^2 + w^2, exactly.
NormSquared(q) ==
    Plus(Plus(Times(q.x, q.x), Times(q.y, q.y)), Plus(Times(q.z, q.z), Times(q.w, q.w)))

\* C12: the quaternion setObjectQuaternion produces has unit norm, for
\* every sample and every screen rotation.
C12_UnitNorm ==
    (convPath = "ARScene" \/ convPath \in EditorPaths) =>
        NormSquared(rotation) = One

\* A tick that turned about all three axes and corrected for the screen.
C12_Witness ==
    /\ convPath = "ARScene"
    /\ orientation.alpha = <<270>>
    /\ orientation.beta = <<180>>
    /\ orientation.gamma = <<90>>
    /\ screenAngle = 270
    /\ rotation = ARSceneRotation(orientation, screenAngle)

(***************************************************************************)
(* The projector in exact arithmetic, for angles that are multiples of 45  *)
(* degrees: Math.sin and Math.cos are then 0, +-1 or +-sqrt(0.5).          *)
(***************************************************************************)
\* Math.sin(x) and Math.cos(x) for x a multiple of pi/4
SinExact(x) == SinHalf(2 * x)
CosExact(x) == CosHalf(2 * x)

\* A faulty variant: z without the cos(altitude) factor.
sunPositionTo3DExact_flat(position) ==
    LET azimuthRad == DegToRad(position.azimuth - 180)
        altitudeRad == DegToRad(position.altitude)
    IN  [x |-> Times(CosExact(altitudeRad), SinExact(azimuthRad)),
         y |-> SinExact(altitudeRad),
         z |-> CosExact(azimuthRad)]

\* sunPositionTo3D: x = cos(alt) sin(az), y = sin(alt), z = cos(alt) cos(az)
sunPositionTo3DExact(position) ==
    LET azimuthRad == DegToRad(position.azimuth - 180)
        altitudeRad == DegToRad(position.altitude)
    IN  [x |-> Times(CosExact(altitudeRad), SinExact(azimuthRad)),
         y |-> SinExact(altitudeRad),
         z |-> Times(CosExact(altitudeRad), CosExact(azimuthRad))]

\* Altitudes in [-90, 90] and azimuths of any size, in degrees.
ProjectorAltitudes == { 45 * k : k \in (0 - 2)..2 }
ProjectorAzimuths == { 45 * k : k \in (0 - 8)..16 }

InitProjector ==
    /\ \E altitude \in ProjectorAltitudes, azimuth \in ProjectorAzimuths :
        projection = [position |-> [altitude |-> altitude, azimuth |-> azimuth],
                      point |-> Null]
    /\ recovered = Null
    /\ previous = Null
    /\ InitNoTrajectory
    /\ InitNoContent
    /\ InitNoOrientation
    /\ InitShell
    /\ InitEditor

\* sunPositionTo3D(position)
SunPositionTo3D ==
    /\ projection.point = Null
    /\ projection' = [projection EXCEPT !.point = sunPositionTo3DExact(projection.position)]
    /\ UNCHANGED <<trajectory, trajectoryVars, contentVars, orientationVars,
                   recovered, previous, shellVars, editorVars>>

NextProjector == SunPositionTo3D

SpecProjector == InitProjector /\ [][NextProjector]_vars

\* C13: for every altitude in [-90, 90] and every azimuth, the point of
\* sunPositionTo3D satisfies x^2 + y^2 + z^2 = 1 (before the scaling by 10).
C13_OnUnitSphere ==
    (projection # Null /\ projection.point # Null) =>
        LET point == projection.point
        IN  Plus(Plus(Times(point.x, point.x), Times(point.y, point.y)),
                 Times(point.z, point.z)) = One

\* A point with all three coordinates non-zero.
C13_Witness ==
    /\ projection # Null
    /\ projection.position = [altitude |-> 45, azimuth |-> 225]
    /\ projection.point # Null
    /\ projection.point.x # Zero
    /\ projection.point.y # Zero
    /\ projection.point.z # Zero

(***************************************************************************)
(* The animation loop of ARScene.  JavaScript runs each callback to its    *)
(* end before the next one starts: while animate or an effect is between   *)
(* two statements (pc # "idle") no other callback runs.  The statements of *)
(* setObjectQuaternion change camera.quaternion in place, one by one.      *)
(*                                                                         *)
(* Two versions of the component are in the repository: ARScene.tsx, whose *)
(* scene effect depends on the orientation prop, and part_001, whose scene *)
(* effect does not and which has a separate orientation effect.            *)
(***************************************************************************)
Versions == {"ARScene.tsx", "part_001"}

TickSamples ==
    { [alpha |-> <<90>>, beta |-> <<0>>, gamma |-> <<0>>],
      [alpha |-> <<180>>, beta |-> <<90>>, gamma |-> NullAxis],
      [alpha |-> <<0>>, beta |-> <<180>>, gamma |-> <<90>>] }

\* new THREE.PerspectiveCamera(...): its quaternion is the identity.
Identity == Quaternion(Zero, Zero, Zero, One)

\* The component as mounted by the page: orientation null, one frame drawn.
InitTick ==
    /\ \E version \in Versions :
        ticker = [version |-> version,
                  prop |-> Null,
                  captured |-> Null,
                  pc |-> "idle",
                  caller |-> "animate",
                  quaternion |-> Identity,
                  applied |-> Null,
                  frame |-> [quaternion |-> Identity, applied |-> Null]]
    /\ orientation = Null
    /\ screenAngle \in {0, 90}
    /\ convPath = "none"
    /\ rotation = Null
    /\ InitNoTrajectory
    /\ InitNoContent
    /\ InitDerived
    /\ InitEditor
    /\ failure = Null
    /\ page = Null
    /\ listener = Null

\* setObjectQuaternion(camera.quaternion, ...) up to quaternion.setFromEuler
BeginSetObjectQuaternion(t, o, caller) ==
    [t EXCEPT !.quaternion = SetFromEulerYXZ(AxisRadians(o.beta), AxisRadians(o.alpha),
                                             0 - AxisRadians(o.gamma)),
              !.applied = o,
              !.pc = "euler",
              !.caller = caller]

\* animate: requestAnimationFrame(animate); if (orientation && camera) { ... }
AnimateBegin(t) ==
    IF t.captured # Null
    THEN BeginSetObjectQuaternion(t, t.captured, "animate")
    ELSE [t EXCEPT !.pc = "built", !.caller = "animate"]

\* The scene effect: a new camera, the orientation prop captured by the
\* closure of animate, and animate() called.
SceneEffect(t) ==
    AnimateBegin([t EXCEPT !.prop = orientation,
                           !.captured = orientation,
                           !.quaternion = Identity,
                           !.applied = Null])

\* The listener delivers a sample: page.tsx, setOrientation(orientation).
Deliver ==
    /\ ticker.pc = "idle"
    /\ \E sample \in TickSamples :
        /\ sample # orientation
        /\ orientation' = sample
    /\ UNCHANGED <<ticker, screenAngle, convPath, rotation, trajectory, trajectoryVars,
                   contentVars, derivedVars, failure, page, listener, editorVars>>

\* React renders ARScene with the new orientation prop and runs the effects
\* that depend on it: the scene effect in ARScene.tsx (after its cleanup
\* cancelled the frame), the orientation effect in part_001.
Commit ==
    /\ ticker.pc = "idle"
    /\ ticker.prop # orientation
    /\ ticker' =
        IF ticker.version = "ARScene.tsx"
        THEN SceneEffect(ticker)
        ELSE BeginSetObjectQuaternion([ticker EXCEPT !.prop = orientation],
                                      orientation, "effect")
    /\ UNCHANGED <<orientationVars, trajectory, trajectoryVars, contentVars,
                   derivedVars, failure, page, listener, editorVars>>

\* width, height or trajectory change: the scene effect runs again.
Remount ==
    /\ ticker.pc = "idle"
    /\ ticker.prop = orientation
    /\ ticker.captured # orientation \/ ticker.quaternion # Identity
    /\ ticker' = SceneEffect(ticker)
    /\ UNCHANGED <<orientationVars, trajectory, trajectoryVars, contentVars,
                   derivedVars, failure, page, listener, editorVars>>

\* The browser calls animate for the next frame.
AnimationFrame ==
    /\ ticker.pc = "idle"
    /\ ticker' = AnimateBegin(ticker)
    /\ UNCHANGED <<orientationVars, trajectory, trajectoryVars, contentVars,
                   derivedVars, failure, page, listener, editorVars>>

\* quaternion.multiply(q1)
MultiplyQ1 ==
    /\ ticker.pc = "euler"
    /\ ticker' = [ticker EXCEPT
           !.quaternion = Multiply(@, Quaternion(Neg(SqrtHalf), Zero, Zero, SqrtHalf)),
           !.pc = "q1"]
    /\ UNCHANGED <<orientationVars, trajectory, trajectoryVars, contentVars,
                   derivedVars, failure, page, listener, editorVars>>

\* quaternion.multiply(q0.setFromAxisAngle(zee, -orient))
MultiplyScreen ==
    /\ ticker.pc = "q1"
    /\ ticker' = [ticker EXCEPT
           !.quaternion = Multiply(@, SetFromAxisAngle(Vector3(0, 0, 1),
                                                       0 - DegToRad(screenAngle))),
           !.pc = "built"]
    /\ UNCHANGED <<orientationVars, trajectory, trajectoryVars, contentVars,
                   derivedVars, failure, page, listener, editorVars>>

\* A faulty variant: the frame drawn as soon as setFromEuler is done.
RenderReady_early(pc) == pc \in {"euler", "built"}

\* animate reaches renderer.render after setObjectQuaternion has returned.
RenderReady(pc) == pc = "built"

\* renderer.render(scene, camera): the frame shows the camera as it is.
Render ==
    /\ RenderReady(ticker.pc)
    /\ ticker.caller = "animate"
    /\ ticker' = [ticker EXCEPT
           !.frame = [quaternion |-> ticker.quaternion, applied |-> ticker.applied],
           !.pc = "idle"]
    /\ UNCHANGED <<orientationVars, trajectory, trajectoryVars, contentVars,
                   derivedVars, failure, page, listener, editorVars>>

\* part_001: the orientation effect returns; nothing is drawn.
EffectReturn ==
    /\ ticker.pc = "built"
    /\ ticker.caller = "effect"
    /\ ticker' = [ticker EXCEPT !.pc = "idle"]
    /\ UNCHANGED <<orientationVars, trajectory, trajectoryVars, contentVars,
                   derivedVars, failure, page, listener, editorVars>>

NextTick ==
    \/ Deliver
    \/ Commit
    \/ Remount
    \/ AnimationFrame
    \/ MultiplyQ1
    \/ MultiplyScreen
    \/ Render
    \/ EffectReturn

SpecTick == InitTick /\ [][NextTick]_vars

\* The rotation a complete setObjectQuaternion call gives the camera for a
\* sample; the identity for a camera no sample was applied to.
CompleteRotation(sample) ==
    IF sample = Null THEN Identity ELSE ARSceneRotation(sample, screenAngle)

\* C14: the rotation handed to the renderer is never partially built: every
\* frame shows the camera quaternion of a complete setObjectQuaternion call
\* (or of the new camera), never an intermediate state of the call.
C14_FrameSeesCompleteRotation ==
    ticker # Null =>
        ticker.frame.quaternion = CompleteRotation(ticker.frame.applied)

\* A frame drawn from a sample whose three statements all changed the
\* quaternion (screen rotation 90).
C14_Witness ==
    /\ ticker # Null
    /\ screenAngle = 90
    /\ ticker.pc = "idle"
    /\ ticker.frame.applied = [alpha |-> <<0>>, beta |-> <<180>>, gamma |-> <<90>>]
    /\ ticker.frame.quaternion = ARSceneRotation(ticker.frame.applied, 90)

\* animate is between its first statement and the end of render.
InTick == ticker.caller = "animate" /\ ticker.pc # "idle"

\* C20: on every animation tick the camera rotation is computed from the
\* most recent orientation sample delivered: no tick applies an older
\* sample after a newer one has been delivered.
C20_TickAppliesLatestSample ==
    (ticker # Null /\ InTick /\ ticker.captured # Null) =>
        /\ ticker.applied = ticker.captured
        /\ ticker.captured = orientation

(***************************************************************************)
(* The pages that hold a trajectory: the AR page (app/page.tsx), whose     *)
(* trajectory effect depends on [location], and the editor page            *)
(* (app/editor/page.tsx), which calculates in the same callback that sets  *)
(* the location.                                                           *)
(***************************************************************************)
PageViews == {"page", "editor"}

\* const DEFAULT_LOCATION = { latitude: 34.18, longitude: -118.37 }
DEFAULT_LOCATION == [latitude |-> 34, longitude |-> 0 - 120]

PageZones == { z \in Zones : z.kind = "none" \/ (z.kind = "spring" /\ z.hour = 2) }

InitPage ==
    /\ \E view \in PageViews :
        page = [view |-> view,
                location |-> IF view = "editor" THEN DEFAULT_LOCATION ELSE Null,
                effectPending |-> FALSE]
    /\ clock \in { o : o \in ClockOffsets }
    /\ zone \in PageZones
    /\ callArgs = NoArgs
    /\ trajectory = Null
    /\ InitNoContent
    /\ InitNoOrientation
    /\ InitDerived
    /\ InitEditor
    /\ failure = Null
    /\ listener = Null
    /\ ticker = Null

\* A location arrives (getLocation resolved, or handleLocationSet).  The AR
\* page only sets the state, and its trajectory effect runs after the
\* render; the editor page calculates and sets the trajectory at once.
SetLocation ==
    /\ ~page.effectPending
    /\ \E loc \in Locations :
        /\ loc # page.location \/ trajectory = Null
        /\ IF page.view = "editor"
           THEN /\ page' = [page EXCEPT !.location = loc]
                /\ callArgs' = [location |-> loc, date |-> clock, now |-> clock]
                /\ trajectory' = calculateSunTrajectory(loc, clock, clock, zone)
           ELSE /\ page' = [page EXCEPT !.location = loc, !.effectPending = TRUE]
                /\ UNCHANGED <<callArgs, trajectory>>
    /\ UNCHANGED <<clock, zone, contentVars, orientationVars, derivedVars,
                   failure, listener, ticker, editorVars>>

\* page.tsx: if (location) { setTrajectory(calculateSunTrajectory(location)) }
TrajectoryEffect ==
    /\ page.effectPending
    /\ page' = [page EXCEPT !.effectPending = FALSE]
    /\ callArgs' = [location |-> page.location, date |-> clock, now |-> clock]
    /\ trajectory' = calculateSunTrajectory(page.location, clock, clock, zone)
    /\ UNCHANGED <<clock, zone, contentVars, orientationVars, derivedVars,
                   failure, listener, ticker, editorVars>>

NextPage == Tick \/ SetLocation \/ TrajectoryEffect

SpecPage == InitPage /\ [][NextPage]_vars

\* C15: whenever the location changes or the calendar day rolls over while
\* the page is open, the trajectory the page holds is rebuilt wholesale by
\* a new calculateSunTrajectory call: once the effects have run, it is the
\* result of one call for the page's location and the current local day.
C15_RebuiltOnLocationOrDate ==
    (page # Null /\ ~page.effectPending /\ trajectory # Null) =>
        /\ trajectory = calculateSunTrajectory(callArgs.location, callArgs.date,
                                               callArgs.now, zone)
        /\ callArgs.location = page.location
        /\ LocalDay(callArgs.date, zone) = LocalDay(clock, zone)

(***************************************************************************)
(* calculateSunTrajectory when a call to the ephemeris throws.  The body   *)
(* has no try/catch: the statements after the failing call do not run and  *)
(* the exception leaves the function.                                      *)
(***************************************************************************)
\* The call that fails: getTimes, or the index-th getPosition (the loop
\* makes HoursPerDay of them, the one for currentPosition comes after).
NoFault == [call |-> "none", index |-> 0]
Faults ==
    {NoFault, [call |-> "getTimes", index |-> 1]}
    \cup { [call |-> "getPosition", index |-> i] : i \in {1, HoursPerDay, HoursPerDay + 1} }

\* The exception the ephemeris throws at that call.
EphemerisError(fault) == [name |-> "Error", thrownBy |-> fault.call, atCall |-> fault.index]

Throw(error, getTimesCalls, getPositionCalls) ==
    [kind |-> "throw", error |-> error, value |-> Null,
     getTimesCalls |-> getTimesCalls, getPositionCalls |-> getPositionCalls]

Return(value, getTimesCalls, getPositionCalls) ==
    [kind |-> "return", error |-> Null, value |-> value,
     getTimesCalls |-> getTimesCalls, getPositionCalls |-> getPositionCalls]

\* A faulty variant: the failure caught and an empty trajectory returned.
calculateSunTrajectoryOutcome_caught(loc, date, now, z, fault) ==
    IF fault = NoFault
    THEN Return(calculateSunTrajectory(loc, date, now, z), 1, HoursPerDay)
    ELSE Return([positions |-> <<>>, sunrise |-> NaN, sunset |-> NaN,
                 currentPosition |-> Null], 1, 0)

\* The outcome of calculateSunTrajectory(location, date) and the calls it
\* made to the ephemeris.
calculateSunTrajectoryOutcome(loc, date, now, z, fault) ==
    LET times == GetTimes(date, loc)
        daylight == InDaylight(now, times.sunrise, times.sunset)
    IN  IF fault.call = "getTimes"
        THEN Throw(EphemerisError(fault), 1, 0)
        ELSE IF fault.call = "getPosition" /\ fault.index <= HoursPerDay
        THEN Throw(EphemerisError(fault), 1, fault.index)
        ELSE IF fault.call = "getPosition" /\ daylight
        THEN Throw(EphemerisError(fault), 1, HoursPerDay + 1)
        ELSE Return(calculateSunTrajectory(loc, date, now, z), 1,
                    IF daylight THEN HoursPerDay + 1 ELSE HoursPerDay)

InitFailure ==
    /\ clock \in { o : o \in ClockOffsets }
    /\ zone = [kind |-> "none", hour |-> 0]
    /\ callArgs = NoArgs
    /\ trajectory = Null
    /\ failure = Null
    /\ InitNoContent
    /\ InitNoOrientation
    /\ InitDerived
    /\ InitEditor
    /\ page = Null
    /\ listener = Null
    /\ ticker = Null

\* const traj = calculateSunTrajectory(location); setTrajectory(traj);
\* when the call throws, setTrajectory is not reached.
CalculateWithFault ==
    /\ \E loc \in Locations, fault \in Faults :
        LET outcome == calculateSunTrajectoryOutcome(loc, clock, clock, zone, fault)
        IN  /\ failure' = [fault |-> fault, location |-> loc, date |-> clock,
                           now |-> clock, outcome |-> outcome]
            /\ IF outcome.kind = "return"
               THEN /\ trajectory' = outcome.value
                    /\ callArgs' = [location |-> loc, date |-> clock, now |-> clock]
               ELSE UNCHANGED <<trajectory, callArgs>>
    /\ UNCHANGED <<clock, zone, contentVars, orientationVars, derivedVars,
                   page, listener, ticker, editorVars>>

NextFailure == CalculateWithFault

SpecFailure == InitFailure /\ [][NextFailure]_vars

\* The failing call is one the function gets to: the getPosition for
\* currentPosition is made in daylight only.
FaultReached ==
    /\ failure.fault # NoFault
    /\ \/ failure.fault.call = "getTimes"
       \/ failure.fault.index <= HoursPerDay
       \/ InDaylight(failure.now, GetTimes(failure.date, failure.location).sunrise,
                     GetTimes(failure.date, failure.location).sunset)

\* C16: if the ephemeris fails, calculateSunTrajectory propagates the same
\* failure and returns no trajectory; it does not retry (no call is made
\* after the failing one) and it does not substitute defaults.
C16_FailurePropagates ==
    (failure # Null /\ FaultReached) =>
        /\ failure.outcome.kind = "throw"
        /\ failure.outcome.error = EphemerisError(failure.fault)
        /\ failure.outcome.value = Null
        /\ failure.outcome.getTimesCalls = 1
        /\ failure.outcome.getPositionCalls =
               (IF failure.fault.call = "getTimes" THEN 0 ELSE failure.fault.index)

\* The getPosition call for currentPosition failed, after the whole loop.
C16_Witness ==
    /\ failure # Null
    /\ failure.fault = [call |-> "getPosition", index |-> HoursPerDay + 1]
    /\ failure.outcome.kind = "throw"
    /\ failure.outcome.getPositionCalls = HoursPerDay + 1

NoHandler == 0

InitListener ==
    /\ \E supported \in BOOLEAN :
        listener = [supported |-> supported,
                    isListening |-> FALSE,
                    orientationHandler |-> NoHandler,
                    awaiting |-> {},
                    registered |-> {},
                    calls |-> 0,
                    stopped |-> FALSE,
                    invokedWhileStopped |-> FALSE]
    /\ InitNoTrajectory
    /\ InitNoContent
    /\ InitNoOrientation
    /\ InitDerived
    /\ InitEditor
    /\ failure = Null
    /\ page = Null
    /\ ticker = Null

\* start(), up to the await: if (isListening) return; otherwise the call
\* is suspended until the permission request settles.
Start ==
    /\ listener.calls < MaxStarts
    /\ listener' =
        [listener EXCEPT
            !.calls = @ + 1,
            !.stopped = FALSE,
            !.awaiting = IF listener.isListening THEN @ ELSE @ \cup {listener.calls + 1}]
    /\ UNCHANGED <<trajectory, trajectoryVars, contentVars, orientationVars,
                   derivedVars, failure, page, ticker, editorVars>>

\* start(), after the await: the permission was granted or denied.
Resume ==
    /\ \E call \in listener.awaiting, hasPermission \in BOOLEAN :
        listener' =
            IF hasPermission /\ listener.supported
            THEN [listener EXCEPT
                    !.awaiting = @ \ {call},
                    !.orientationHandler = call,
                    !.registered = @ \cup {call},
                    !.isListening = TRUE]
            ELSE [listener EXCEPT !.awaiting = @ \ {call}]
    /\ UNCHANGED <<trajectory, trajectoryVars, contentVars, orientationVars,
                   derivedVars, failure, page, ticker, editorVars>>

\* stop(): if (!isListening || !orientationHandler) return; ...
Stop ==
    /\ listener' =
        IF ~listener.isListening \/ listener.orientationHandler = NoHandler
        THEN [listener EXCEPT !.stopped = TRUE]
        ELSE [listener EXCEPT
                !.stopped = TRUE,
                !.registered = @ \ {listener.orientationHandler},
                !.orientationHandler = NoHandler,
                !.isListening = FALSE]
    /\ UNCHANGED <<trajectory, trajectoryVars, contentVars, orientationVars,
                   derivedVars, failure, page, ticker, editorVars>>

\* window dispatches a deviceorientation event: every registered handler
\* calls onOrientation with the sample.
DispatchEvent ==
    /\ listener.registered # {}
    /\ \E sample \in TickSamples :
        /\ sample # orientation
        /\ orientation' = sample
    /\ listener' = [listener EXCEPT
           !.invokedWhileStopped = @ \/ (listener.stopped /\ listener.awaiting = {})]
    /\ UNCHANGED <<screenAngle, convPath, rotation, trajectory, trajectoryVars,
                   contentVars, derivedVars, failure, page, ticker, editorVars>>

NextListener == Start \/ Resume \/ Stop \/ DispatchEvent

SpecListener == InitListener /\ [][NextListener]_vars

\* stop() has been called, no start() was issued after it, and every
\* start() issued before it has finished.
StoppedAndSettled == listener.stopped /\ listener.awaiting = {}

\* C18: once stop() has been called and every start() issued before it has
\* finished, no handler of the listener is registered on window and
\* onOrientation is not invoked again, also when stop() was called while a
\* start() was still awaiting the permission.
C18_StoppedMeansUnregistered ==
    (listener # Null /\ StoppedAndSettled) =>
        /\ listener.registered = {}
        /\ ~listener.invokedWhileStopped

\* C19: under every interleaving of start() and stop() at most one handler
\* of the listener is registered at any time, and every registered handler
\* is the one orientationHandler refers to, the one stop() will remove.
C19_AtMostOneHandler ==
    listener # Null =>
        /\ Cardinality(listener.registered) <= 1
        /\ \A handler \in listener.registered : handler = listener.orientationHandler

(***************************************************************************)
(* The scene components: ARScene (ARScene.tsx, and its older version       *)
(* part_001), ARCameraView and ThirdPersonView.  A commit of React runs    *)
(* the cleanups and the effects whose dependencies changed, in the order   *)
(* of the source, as one step.  What is asynchronous is kept apart: the    *)
(* animation frames, the `await import(...)` of ThirdPersonView's          *)
(* initScene, and the processing of its queued setSceneReady updates.      *)
(*                                                                         *)
(* A bundle is what one createARContent call added: it is named by a       *)
(* serial number and carries the trajectory it was built from and the      *)
(* `visible` flag of its objects.  An effect run is named by its number.   *)
(***************************************************************************)
ComponentKinds == {"ARScene.tsx", "part_001", "ARCameraView", "ThirdPersonView"}

NoBundle == 0

\* createARContent(scene, trajectory, THREE) and the refs set to its result
AddBundle(c) ==
    LET bundle == [id |-> c.made + 1, trajectory |-> c.trajectory, visible |-> TRUE]
    IN  [c EXCEPT !.made = @ + 1,
                  !.refs = bundle.id,
                  !.scene = [@ EXCEPT !.bundles = @ \cup {bundle}]]

\* A faulty variant: the old objects left in the scene.
RemoveFromScene_kept(bundles, ref) == bundles

\* scene.remove(ref.current) for each ref that is set
RemoveFromScene(bundles, ref) == { b \in bundles : b.id # ref }

\* The cleanup of a scene effect, as far as the loop is concerned:
\* cancelAnimationFrame(animationFrameId) where the source has it
\* (part_001 and ThirdPersonView leave the requested callback in place).
SceneCleanup(c) ==
    [c EXCEPT !.cleaned = @ \cup {c.effect},
              !.loops = IF c.kind \in {"ARScene.tsx", "ARCameraView"}
                        THEN @ \ {c.effect}
                        ELSE @,
              !.frames = 0]

\* ARScene.tsx, part_001: the scene effect.  A new scene; buildContent
\* removes what the refs hold (objects of the scene before, not in this
\* one) and builds; animate() draws a frame and requests the next.
ARSceneEffect(c) ==
    LET fresh == [c EXCEPT !.effect = @ + 1,
                           !.scene = [effect |-> c.effect + 1, bundles |-> {}],
                           !.loops = @ \cup {c.effect + 1}]
    IN  IF c.trajectory # 0
        THEN AddBundle([fresh EXCEPT
                 !.scene = [@ EXCEPT !.bundles = RemoveFromScene(@, c.refs)]])
        ELSE fresh

\* ARCameraView: the cleanup of the scene effect sets the refs to null and
\* clears the scene; the effect makes a new scene with its content.
CameraViewSceneEffect(c) ==
    LET fresh == [c EXCEPT !.effect = @ + 1,
                           !.refs = NoBundle,
                           !.scene = [effect |-> c.effect + 1, bundles |-> {}],
                           !.loops = @ \cup {c.effect + 1}]
    IN  IF c.trajectory # 0 THEN AddBundle(fresh) ELSE fresh

\* ARCameraView and ThirdPersonView: the content effect.
\* if (!sceneRef.current || !trajectory) return; remove the old content,
\* set the refs to null, create the new content.
ContentEffect(c) ==
    IF c.scene = Null \/ c.trajectory = 0
    THEN c
    ELSE AddBundle([c EXCEPT
             !.scene = [@ EXCEPT !.bundles = RemoveFromScene(@, c.refs)],
             !.refs = NoBundle])

\* ARCameraView: the overlay effect, on [showOverlay] only.
OverlayEffect(c) ==
    [c EXCEPT !.scene =
        [@ EXCEPT !.bundles =
            { IF b.id = c.refs THEN [b EXCEPT !.visible = c.showOverlay] ELSE b
              : b \in @ }]]

\* ThirdPersonView: the cleanup of the scene effect (cancelled = true,
\* scene.clear(), sceneRef.current = null, setSceneReady(false)) and the
\* effect, which calls initScene() and leaves it at its await.
ThirdPersonSceneEffect(c) ==
    [c EXCEPT !.effect = @ + 1,
              !.scene = Null,
              !.queue = Append(@, FALSE),
              !.initPending = @ \cup {c.effect + 1}]

\* ThirdPersonView: one commit.  The render takes the queued setSceneReady
\* calls (the last one gives the value); then the cleanup and the scene
\* effect run when the size changed, and the content effect runs when
\* trajectory or sceneReady differs from the render before.
ThirdPersonCommit(c, sizeChanged, trajectoryChanged) ==
    LET ready == IF c.queue = <<>> THEN c.sceneReady ELSE c.queue[Len(c.queue)]
        rendered == [c EXCEPT !.queue = <<>>, !.sceneReady = ready]
        afterScene == IF sizeChanged
                      THEN ThirdPersonSceneEffect(SceneCleanup(rendered))
                      ELSE rendered
    IN  IF trajectoryChanged \/ ready # c.sceneReady
        THEN ContentEffect(afterScene)
        ELSE afterScene

\* A component before its first effects.
Unmounted(kind, trajectoryProp) ==
    [kind |-> kind,
     trajectory |-> trajectoryProp,
     changes |-> 0,
     resized |-> FALSE,
     effect |-> 0,
     scene |-> Null,
     refs |-> NoBundle,
     made |-> 0,
     loops |-> {},
     cleaned |-> {},
     frames |-> 0,
     lateFrame |-> FALSE,
     initPending |-> {},
     sceneReady |-> FALSE,
     queue |-> <<>>,
     showOverlay |-> TRUE]

\* The component after the effects of its mount.
Mounted(kind, trajectoryProp) ==
    LET c == Unmounted(kind, trajectoryProp)
    IN  IF kind \in {"ARScene.tsx", "part_001"} THEN ARSceneEffect(c)
        ELSE IF kind = "ARCameraView" THEN ContentEffect(CameraViewSceneEffect(c))
        ELSE [c EXCEPT !.effect = 1, !.initPending = {1}]

InitView ==
    /\ \E kind \in ComponentKinds, trajectoryProp \in {0, 1} :
        component = Mounted(kind, trajectoryProp)
    /\ simulator = Null
    /\ storage = Null
    /\ InitNoTrajectory
    /\ InitNoContent
    /\ InitNoOrientation
    /\ InitDerived
    /\ InitShell

\* The parent passes a new trajectory.
TrajectoryUpdate ==
    /\ component.changes < MaxChanges
    /\ LET c == [component EXCEPT !.trajectory = @ + 1, !.changes = @ + 1]
       IN  component' =
            IF c.kind \in {"ARScene.tsx", "part_001"}
            THEN ARSceneEffect(SceneCleanup(c))
            ELSE IF c.kind = "ARCameraView"
            THEN ContentEffect(CameraViewSceneEffect(SceneCleanup(c)))
            ELSE ThirdPersonCommit(c, FALSE, TRUE)
    /\ UNCHANGED <<trajectory, trajectoryVars, contentVars, orientationVars,
                   derivedVars, shellVars, simulator, storage>>

\* width or height change (for ARCameraView and ARScene.tsx, fov as well).
Resize ==
    /\ component.changes < MaxChanges
    /\ LET c == [component EXCEPT !.resized = TRUE, !.changes = @ + 1]
       IN  component' =
            IF c.kind \in {"ARScene.tsx", "part_001"}
            THEN ARSceneEffect(SceneCleanup(c))
            ELSE IF c.kind = "ARCameraView"
            THEN CameraViewSceneEffect(SceneCleanup(c))
            ELSE ThirdPersonCommit(c, TRUE, FALSE)
    /\ UNCHANGED <<trajectory, trajectoryVars, contentVars, orientationVars,
                   derivedVars, shellVars, simulator, storage>>

\* ARCameraView: the overlay button, setShowOverlay((prev) => !prev).
ToggleOverlay ==
    /\ component.kind = "ARCameraView"
    /\ component.changes < MaxChanges
    /\ component' = OverlayEffect([component EXCEPT !.showOverlay = ~@,
                                                     !.changes = @ + 1])
    /\ UNCHANGED <<trajectory, trajectoryVars, contentVars, orientationVars,
                   derivedVars, shellVars, simulator, storage>>

\* ThirdPersonView: initScene goes on after its await.
\* if (cancelled) return; ... animate(); setSceneReady(true);
InitSceneResume ==
    /\ \E run \in component.initPending :
        component' =
            IF run \in component.cleaned
            THEN [component EXCEPT !.initPending = @ \ {run}]
            ELSE [component EXCEPT
                    !.initPending = @ \ {run},
                    !.scene = [effect |-> run, bundles |-> {}],
                    !.loops = @ \cup {run},
                    !.queue = Append(@, TRUE)]
    /\ UNCHANGED <<trajectory, trajectoryVars, contentVars, orientationVars,
                   derivedVars, shellVars, simulator, storage>>

\* ThirdPersonView: the render React schedules for queued setSceneReady
\* calls; the effects on sceneReady run only if its value has changed.
ProcessStateUpdates ==
    /\ component.queue # <<>>
    /\ component' = ThirdPersonCommit(component, FALSE, FALSE)
    /\ UNCHANGED <<trajectory, trajectoryVars, contentVars, orientationVars,
                   derivedVars, shellVars, simulator, storage>>

\* The browser runs a requested animation callback.  ThirdPersonView's
\* animate returns at once when cancelled; the others draw and request
\* the next frame.
ViewAnimationFrame ==
    /\ \E run \in component.loops :
        component' =
            IF component.kind = "ThirdPersonView" /\ run \in component.cleaned
            THEN [component EXCEPT !.loops = @ \ {run}]
            ELSE [component EXCEPT
                    !.frames = IF @ < MaxFrames THEN @ + 1 ELSE @,
                    !.lateFrame = @ \/ run \in component.cleaned]
    /\ component' # component
    /\ UNCHANGED <<trajectory, trajectoryVars, contentVars, orientationVars,
                   derivedVars, shellVars, simulator, storage>>

NextView ==
    \/ TrajectoryUpdate
    \/ Resize
    \/ ToggleOverlay
    \/ InitSceneResume
    \/ ProcessStateUpdates
    \/ ViewAnimationFrame

SpecView == InitView /\ [][NextView]_vars

\* No initScene is at its await and no state update awaits its render.
Settled == component.initPending = {} /\ component.queue = <<>>

\* C21: in ARScene, ARCameraView and ThirdPersonView, after any sequence
\* of trajectory updates the live scene contains exactly one content
\* bundle, the one built from the latest trajectory (every earlier bundle
\* has been removed), and the refs point at it.
C21_OneBundleOfLatestTrajectory ==
    (/\ component # Null
     /\ component.kind \in {"ARScene.tsx", "ARCameraView", "ThirdPersonView"}
     /\ ~component.resized
     /\ Settled
     /\ component.trajectory # 0) =>
        /\ component.scene # Null
        /\ Cardinality(component.scene.bundles) = 1
        /\ \A b \in component.scene.bundles :
                /\ b.trajectory = component.trajectory
                /\ b.id = component.refs

\* ThirdPersonView after three trajectory updates.
C21_Witness ==
    /\ component # Null
    /\ component.kind = "ThirdPersonView"
    /\ ~component.resized
    /\ Settled
    /\ component.trajectory = 3
    /\ component.made = 3
    /\ component.scene # Null

\* The await of initScene ends (a dynamic import resolves or rejects in
\* finite time) and React renders after a state update: both steps happen
\* once they can.  Nothing obliges the parent to change a prop.
SpecViewFair ==
    /\ InitView
    /\ [][NextView]_vars
    /\ WF_vars(InitSceneResume)
    /\ WF_vars(ProcessStateUpdates)

\* The live scene of ThirdPersonView holds a bundle of the trajectory.
BundleInLiveScene ==
    /\ component.scene # Null
    /\ \E b \in component.scene.bundles : b.trajectory = component.trajectory

\* C22: in ThirdPersonView, whenever the scene has been initialised again
\* (width or height changed) while a trajectory is present, the bundle of
\* that trajectory is eventually in the new scene.
C22_BundleReachesNewScene ==
    (/\ component.kind = "ThirdPersonView"
     /\ component.resized
     /\ component.trajectory # 0) ~> BundleInLiveScene

\* The effect runs whose animate still draws when its callback is run.
LiveLoops ==
    IF component.kind = "ThirdPersonView"
    THEN component.loops \ component.cleaned
    ELSE component.loops

\* C23: once the cleanup of a scene component's effect has run, the loop
\* of that effect run draws no further frame (none with the disposed
\* renderer) and requests none, so at most one render loop is live.
C23_NoFrameAfterCleanup ==
    component # Null =>
        /\ ~component.lateFrame
        /\ Cardinality(LiveLoops) <= 1

\* C27: in ARCameraView, with the effects of a commit run, every content
\* object's `visible` equals showOverlay, whatever toggles and changes of
\* trajectory, size or fov came before.
C27_VisibleEqualsShowOverlay ==
    (component # Null /\ component.kind = "ARCameraView") =>
        \A b \in component.scene.bundles : b.visible = component.showOverlay

\* The arrows of the compass, in the order N, E, S, W (the arrow is added
\* in every environment).
CompassDirections ==
    LET e == CHOOSE env0 \in Environments : TRUE
        arrows == SelectSeq(Compass(e), LAMBDA o : o.type = "ArrowHelper")
    IN  [i \in 1..Len(arrows) |-> arrows[i].direction]

\* A whole coordinate -1, 0 or 1 as an exact number.
ExactOfUnit(d) == IF d = 1 THEN One ELSE IF d = 0 - 1 THEN Neg(One) ELSE Zero

\* The projector is at a cardinal azimuth on the horizon and has run.
AtCardinal ==
    /\ projection # Null
    /\ projection.point # Null
    /\ projection.position.altitude = 0
    /\ projection.position.azimuth \in {0, 90, 180, 270}

\* C24: at altitude 0 the azimuths 0 (North), 90 (East), 180 (South) and
\* 270 (West) are sent by sunPositionTo3D to +Z, +X, -Z and -X, the
\* directions of the N, E, S and W arrows of createARContent's compass.
C24_CardinalsMatchCompass ==
    AtCardinal =>
        LET direction == CompassDirections[(projection.position.azimuth \div 90) + 1]
        IN  /\ projection.point.x = ExactOfUnit(direction.x)
            /\ projection.point.y = ExactOfUnit(direction.y)
            /\ projection.point.z = ExactOfUnit(direction.z)

(***************************************************************************)
(* The keyboard controls of the simulated device: editorControls.ts, used  *)
(* by DeviceSimulator (part_004) through setOrientation, and the key       *)
(* handler of ThirdPersonView, which keeps a quaternion and reads the      *)
(* orientation back from it.  Angles are whole degrees; an axis or a       *)
(* delta field that is absent is NullAxis.                                 *)
(***************************************************************************)
NoDelta == [kind |-> "null"]

Delta(alpha, beta, gamma) == [alpha |-> alpha, beta |-> beta, gamma |-> gamma]

KeyCodes ==
    {"KeyA", "KeyD", "KeyW", "KeyS", "KeyQ", "KeyE",
     "ArrowLeft", "ArrowRight", "ArrowUp", "ArrowDown", "Space", "KeyZ"}

\* KEY_DELTA_MAP[code], undefined as NoDelta
KEY_DELTA_MAP(code) ==
    CASE code = "KeyA" -> Delta(<<0 - 5>>, NullAxis, NullAxis)
      [] code = "KeyD" -> Delta(<<5>>, NullAxis, NullAxis)
      [] code = "KeyW" -> Delta(NullAxis, <<0 - 5>>, NullAxis)
      [] code = "KeyS" -> Delta(NullAxis, <<5>>, NullAxis)
      [] code = "KeyQ" -> Delta(NullAxis, NullAxis, <<0 - 5>>)
      [] code = "KeyE" -> Delta(NullAxis, NullAxis, <<5>>)
      [] code = "ArrowLeft" -> Delta(<<0 - 1>>, NullAxis, NullAxis)
      [] code = "ArrowRight" -> Delta(<<1>>, NullAxis, NullAxis)
      [] code = "ArrowUp" -> Delta(NullAxis, <<0 - 1>>, NullAxis)
      [] code = "ArrowDown" -> Delta(NullAxis, <<1>>, NullAxis)
      [] OTHER -> NoDelta

Min(a, b) == IF a <= b THEN a ELSE b

\* The % of JavaScript: the result has the sign of the dividend.
Remainder(a, n) == IF a >= 0 THEN a % n ELSE 0 - ((0 - a) % n)

clampBeta(value) == Max(0 - 180, Min(180, value))
clampGamma(value) == Max(0 - 90, Min(90, value))

\* A faulty variant: the remainder left as it is.
wrapAlpha_remainder(value) == Remainder(value, 360)

wrapAlpha(value) ==
    LET wrapped == Remainder(value, 360)
    IN  IF wrapped < 0 THEN wrapped + 360 ELSE wrapped

getOrientationDeltaForKey(code) ==
    IF code = "Space" THEN Delta(<<0>>, <<0>>, <<0>>) ELSE KEY_DELTA_MAP(code)

\* value ?? 0
OrZero(axis) == IF axis # NullAxis THEN axis[1] ELSE 0

applyOrientationDelta(o, delta) ==
    IF delta.alpha = <<0>> /\ delta.beta = <<0>> /\ delta.gamma = <<0>>
    THEN [alpha |-> <<0>>, beta |-> <<0>>, gamma |-> <<0>>, absolute |-> o.absolute]
    ELSE [alpha |-> <<wrapAlpha(OrZero(o.alpha) + OrZero(delta.alpha))>>,
          beta |-> <<clampBeta(OrZero(o.beta) + OrZero(delta.beta))>>,
          gamma |-> <<clampGamma(OrZero(o.gamma) + OrZero(delta.gamma))>>,
          absolute |-> o.absolute]

\* quat.normalize(): a quaternion of unit norm is left as it is (the only
\* case the exact numbers hold).
Normalize(q) == IF NormSquared(q) = One THEN q ELSE Null

\* ThirdPersonView, case 'Space', with what follows the switch: the
\* quaternion of (180, 90, 0), normalised and read back.
ThirdPersonSpace ==
    LET quat == Normalize(EditorRotation(
                    [alpha |-> <<180>>, beta |-> <<90>>, gamma |-> <<0>>]))
    IN  [quat |-> quat, newOrientation |-> quaternionToDeviceOrientation(quat)]

SimulatorPaths == {"DeviceSimulator", "ThirdPersonView"}

\* Orientations the simulator can be given (initialOrientation, or the
\* orientation prop): near the ends of each range, and absent axes.
InitialOrientations ==
    [alpha : {NullAxis, <<0>>, <<3>>, <<180>>, <<358>>},
     beta : {NullAxis, <<0 - 178>>, <<90>>, <<180>>},
     gamma : {NullAxis, <<0 - 90>>, <<0>>, <<88>>},
     absolute : BOOLEAN]

InitSimulator ==
    /\ \E path \in SimulatorPaths, o \in InitialOrientations :
        simulator = [path |-> path,
                     orientation |-> o,
                     before |-> o,
                     code |-> "none",
                     keys |-> 0]
    /\ component = Null
    /\ storage = Null
    /\ InitNoTrajectory
    /\ InitNoContent
    /\ InitNoOrientation
    /\ InitDerived
    /\ InitShell

\* DeviceSimulator: handleKeyDown with the state update it requests.
\* if (!delta) return; setOrientation((prev) => applyOrientationDelta(prev, delta))
SimulatorKeyDown ==
    /\ simulator.path = "DeviceSimulator"
    /\ simulator.keys < MaxKeys
    /\ \E code \in KeyCodes :
        LET delta == getOrientationDeltaForKey(code)
        IN  simulator' =
                [simulator EXCEPT
                    !.code = code,
                    !.keys = @ + 1,
                    !.before = simulator.orientation,
                    !.orientation = IF delta = NoDelta
                                    THEN @
                                    ELSE applyOrientationDelta(@, delta)]
    /\ UNCHANGED <<trajectory, trajectoryVars, contentVars, orientationVars,
                   derivedVars, shellVars, component, storage>>

\* ThirdPersonView: handleKeyDown for Space, up to onOrientationChange,
\* which gives the editor page its new simOrientation.  (The other keys
\* turn the quaternion by 5 or 1 degrees about an axis.)
ThirdPersonKeyDown ==
    /\ simulator.path = "ThirdPersonView"
    /\ simulator.keys < MaxKeys
    /\ simulator' = [simulator EXCEPT
                        !.code = "Space",
                        !.keys = @ + 1,
                        !.before = simulator.orientation,
                        !.orientation = ThirdPersonSpace.newOrientation]
    /\ UNCHANGED <<trajectory, trajectoryVars, contentVars, orientationVars,
                   derivedVars, shellVars, component, storage>>

NextSimulator == SimulatorKeyDown \/ ThirdPersonKeyDown

SpecSimulator == InitSimulator /\ [][NextSimulator]_vars

\* The last key pressed was Space.
SpacePressed == simulator # Null /\ simulator.code = "Space"

\* C25: pressing Space sets the simulated orientation to alpha 180,
\* beta 90, gamma 0, in the key handler of ThirdPersonView and in
\* DeviceSimulator (getOrientationDeltaForKey, applyOrientationDelta).
C25_SpaceResets ==
    SpacePressed =>
        /\ simulator.orientation.alpha = <<180>>
        /\ simulator.orientation.beta = <<90>>
        /\ simulator.orientation.gamma = <<0>>

\* A key with a delta has been applied in DeviceSimulator.
DeltaApplied ==
    /\ simulator # Null
    /\ simulator.path = "DeviceSimulator"
    /\ simulator.code # "none"
    /\ getOrientationDeltaForKey(simulator.code) # NoDelta

CacheLocations == Locations \cup { [latitude |-> 0, longitude |-> 15] }

NoItem == [kind |-> "null"]

\* JSON.stringify(location)
Stringify(location) == [text |-> "json", value |-> location]

GarbageItem == [text |-> "not json"]

\* JSON.parse(stored) throws on a text that is not JSON
ParseThrows(item) == item.text # "json"
Parse(item) == item.value

\* a number in a condition: 0 is false
Truthy(n) == n # 0

\* getLocation, up to "Try browser geolocation": the stored location it
\* returns, or Null when it goes on to geolocation.
CachedLocation(st) ==
    IF ~st.hasStorage THEN Null
    ELSE IF st.item = NoItem THEN Null
    ELSE IF ParseThrows(st.item) THEN Null
    ELSE IF Truthy(Parse(st.item).latitude) /\ Truthy(Parse(st.item).longitude)
         THEN Parse(st.item)
         ELSE Null

\* What a getLocation call resolves to, given to its caller: the editor
\* page's fetchLocation (if (!cancelled) ...) or another caller, whose
\* result is kept in lastGet.
Resolve(st, request, result, usedGeolocation) ==
    IF request.caller = "editor"
    THEN IF st.cancelled
         THEN st
         ELSE LET effectiveLocation == IF result # Null THEN result ELSE DEFAULT_LOCATION
              IN  [st EXCEPT !.location = effectiveLocation,
                             !.trajectoryOf = effectiveLocation]
    ELSE [st EXCEPT !.lastGet = [result |-> result,
                                 geolocation |-> usedGeolocation,
                                 saved |-> request.saved,
                                 cleared |-> request.cleared]]

\* getLocation() called by `caller`: resolved at once from the cache or
\* without geolocation support, pending otherwise.
GetLocationCall(st, caller) ==
    LET request == [caller |-> caller, saved |-> st.saved, cleared |-> st.cleared]
        cached == CachedLocation(st)
    IN  IF cached # Null THEN Resolve(st, request, cached, FALSE)
        ELSE IF ~st.hasGeolocation THEN Resolve(st, request, Null, FALSE)
        ELSE [st EXCEPT !.pending = @ \cup {request}]

\* saveLocation(location)
SaveLocationCall(st, location) ==
    IF st.hasStorage
    THEN [st EXCEPT !.item = Stringify(location), !.saved = location, !.cleared = FALSE]
    ELSE st

\* The editor page before its mount effect.
EditorPageState(hasStorage, hasGeolocation, item) ==
    [hasStorage |-> hasStorage,
     hasGeolocation |-> hasGeolocation,
     item |-> item,
     saved |-> Null,
     cleared |-> FALSE,
     pending |-> {},
     lastGet |-> Null,
     location |-> DEFAULT_LOCATION,
     trajectoryOf |-> Null,
     userSet |-> Null,
     cancelled |-> FALSE,
     ops |-> 0]

\* The editor page mounted: fetchLocation() has called getLocation().
InitLocation ==
    /\ \E hasStorage \in BOOLEAN, hasGeolocation \in BOOLEAN,
          item \in {NoItem, GarbageItem} \cup { Stringify(l) : l \in CacheLocations } :
        /\ (~hasStorage => item = NoItem)
        /\ storage = GetLocationCall(
                         EditorPageState(hasStorage, hasGeolocation, item), "editor")
    /\ component = Null
    /\ simulator = Null
    /\ InitNoTrajectory
    /\ InitNoContent
    /\ InitNoOrientation
    /\ InitDerived
    /\ InitShell

\* handleLocationSet(loc): saveLocation, setLocation,
\* setTrajectory(calculateSunTrajectory(loc))
HandleLocationSet ==
    /\ storage.ops < MaxOps
    /\ ~storage.cancelled
    /\ \E loc \in CacheLocations :
        storage' = [SaveLocationCall(storage, loc) EXCEPT
                        !.location = loc,
                        !.trajectoryOf = loc,
                        !.userSet = loc,
                        !.ops = @ + 1]
    /\ UNCHANGED <<trajectory, trajectoryVars, contentVars, orientationVars,
                   derivedVars, shellVars, component, simulator>>

\* Another caller's getLocation() (app/page.tsx, mounted later).
GetLocation ==
    /\ storage.ops < MaxOps
    /\ storage' = [GetLocationCall(storage, "call") EXCEPT !.ops = @ + 1]
    /\ UNCHANGED <<trajectory, trajectoryVars, contentVars, orientationVars,
                   derivedVars, shellVars, component, simulator>>

\* clearLocation()
ClearLocation ==
    /\ storage.ops < MaxOps
    /\ storage' = IF storage.hasStorage
                  THEN [storage EXCEPT !.item = NoItem, !.saved = Null,
                                       !.cleared = TRUE, !.ops = @ + 1]
                  ELSE [storage EXCEPT !.ops = @ + 1]
    /\ UNCHANGED <<trajectory, trajectoryVars, contentVars, orientationVars,
                   derivedVars, shellVars, component, simulator>>

\* getCurrentPosition's success callback: the position is stored and the
\* promise resolves to it.
GeolocationSuccess ==
    /\ \E request \in storage.pending, position \in CacheLocations :
        LET stored == IF storage.hasStorage
                      THEN [storage EXCEPT !.item = Stringify(position),
                                           !.saved = position,
                                           !.cleared = FALSE]
                      ELSE storage
        IN  storage' = Resolve([stored EXCEPT !.pending = @ \ {request}],
                               request, position, TRUE)
    /\ UNCHANGED <<trajectory, trajectoryVars, contentVars, orientationVars,
                   derivedVars, shellVars, component, simulator>>

\* getCurrentPosition's error callback: resolve(null)
GeolocationError ==
    /\ \E request \in storage.pending :
        storage' = Resolve([storage EXCEPT !.pending = @ \ {request}],
                           request, Null, TRUE)
    /\ UNCHANGED <<trajectory, trajectoryVars, contentVars, orientationVars,
                   derivedVars, shellVars, component, simulator>>

\* The editor page unmounts: cancelled = true
EditorUnmount ==
    /\ ~storage.cancelled
    /\ storage' = [storage EXCEPT !.cancelled = TRUE]
    /\ UNCHANGED <<trajectory, trajectoryVars, contentVars, orientationVars,
                   derivedVars, shellVars, component, simulator>>

NextLocation ==
    \/ HandleLocationSet
    \/ GetLocation
    \/ ClearLocation
    \/ GeolocationSuccess
    \/ GeolocationError
    \/ EditorUnmount

SpecLocation == InitLocation /\ [][NextLocation]_vars

\* C28: on the editor page, once the user has set a location with
\* handleLocationSet, location and trajectory stay those of that location
\* (a getLocation() started before and completing later does not replace
\* them), and the trajectory is always the one of the location held.
C28_UserLocationKept ==
    (storage # Null /\ storage.userSet # Null) =>
        /\ storage.location = storage.userSet
        /\ storage.trajectoryOf = storage.location

\* C29: a getLocation() called after saveLocation(loc), for any valid
\* latitude and longitude (0 included), resolves to loc without asking
\* geolocation; after clearLocation() the location is not returned from
\* the cache.
C29_CacheRoundTrip ==
    (storage # Null /\ storage.lastGet # Null) =>
        /\ storage.lastGet.saved # Null =>
                /\ storage.lastGet.result = storage.lastGet.saved
                /\ ~storage.lastGet.geolocation
        /\ storage.lastGet.cleared =>
                (storage.lastGet.geolocation \/ storage.lastGet.result = Null)

(***************************************************************************)
(* The camera field of view (lib/useCameraFOV.ts).  localStorage holds one *)
(* item under FOV_STORAGE_KEY: nothing, the text of a number, or a text    *)
(* that is no number.  The camera stream of the third strategy arrives     *)
(* later, or is refused.                                                   *)
(***************************************************************************)
DEFAULT_FOV == 75

\* fov.toString()
FovToString(fov) == [text |-> "number", value |-> fov]

NoNumberItem == [text |-> "abc"]

\* parseFloat(text): <<n>>, or << >> for NaN
ParseFloat(item) == IF item.text = "number" THEN <<item.value>> ELSE << >>

\* !isNaN(fov) && fov > 0 && fov < 180
ValidCachedFov(parsed) == parsed # << >> /\ parsed[1] > 0 /\ parsed[1] < 180

\* The user agents told apart: a model name of DEVICE_FOV_MAP in the
\* text, an iPhone without a model name, and another device.
UserAgents == {"iphone se", "iphone 12 pro", "iphone", "android"}

Screens ==
    { [width |-> 750, height |-> 1334],
      [width |-> 1792, height |-> 828],
      [width |-> 1170, height |-> 2532],
      [width |-> 1284, height |-> 2778],
      [width |-> 390, height |-> 844] }

\* DEVICE_FOV_MAP[device], for the model names the user agents carry
DEVICE_FOV_MAP(device) == IF device = "iphone se" THEN 65 ELSE 77

detectFOVFromUserAgent(userAgent, screen) ==
    IF userAgent \in {"iphone se", "iphone 12 pro"}
    THEN [fov |-> DEVICE_FOV_MAP(userAgent), device |-> userAgent]
    ELSE IF userAgent = "iphone"
    THEN LET minDim == Min(screen.width, screen.height)
             maxDim == Max(screen.width, screen.height)
         IN  IF minDim = 750 /\ maxDim = 1334
             THEN [fov |-> 65, device |-> "iPhone SE (detected from screen)"]
             ELSE IF minDim = 828 /\ maxDim = 1792
             THEN [fov |-> 65, device |-> "iPhone SE (detected from screen)"]
             ELSE IF minDim = 1170 /\ maxDim = 2532
             THEN [fov |-> 77, device |-> "iPhone 12/13 Pro (detected from screen)"]
             ELSE IF minDim = 1284 /\ maxDim = 2778
             THEN [fov |-> 77, device |-> "iPhone Pro Max (detected from screen)"]
             ELSE [fov |-> DEFAULT_FOV, device |-> "Unknown"]
    ELSE [fov |-> DEFAULT_FOV, device |-> "Unknown"]

\* What track.getSettings().fov can be: absent, or a number.
NoFov == << >>
CameraFovs == {NoFov, <<0 - 5>>, <<0>>, <<60>>, <<179>>, <<180>>, <<200>>}

\* The texts the item can hold before the first detection.
CachedItems ==
    {NoItem, NoNumberItem} \cup { FovToString(n) : n \in {0 - 5, 0, 60, 179, 180, 200} }

InitFov ==
    /\ \E item \in CachedItems, userAgent \in UserAgents, screen \in Screens :
        storage = [item |-> item,
                   userAgent |-> userAgent,
                   screen |-> screen,
                   pc |-> "idle",
                   result |-> Null,
                   wrote |-> FALSE,
                   ops |-> 0]
    /\ component = Null
    /\ simulator = Null
    /\ InitNoTrajectory
    /\ InitNoContent
    /\ InitNoOrientation
    /\ InitDerived
    /\ InitShell

\* detectCameraFOV(), strategies 1 and 2, and the getUserMedia request of
\* strategy 3.
DetectCameraFOV ==
    /\ storage.pc # "camera"
    /\ storage.ops < MaxOps
    /\ LET detected == detectFOVFromUserAgent(storage.userAgent, storage.screen)
           st == [storage EXCEPT !.ops = @ + 1, !.result = Null]
       IN  storage' =
            IF storage.item # NoItem /\ ValidCachedFov(ParseFloat(storage.item))
            THEN [st EXCEPT !.pc = "resolved",
                            !.result = [fov |-> ParseFloat(storage.item)[1],
                                        device |-> "Cached value"]]
            ELSE IF detected.fov # DEFAULT_FOV
            THEN [st EXCEPT !.pc = "resolved",
                            !.item = FovToString(detected.fov),
                            !.wrote = TRUE,
                            !.result = detected]
            ELSE [st EXCEPT !.pc = "camera"]
    /\ UNCHANGED <<trajectory, trajectoryVars, contentVars, orientationVars,
                   derivedVars, shellVars, component, simulator>>

\* getUserMedia resolves: the fov of the track's settings, if it is a
\* number that is not falsy, is cached and returned; otherwise the default.
CameraStream ==
    /\ storage.pc = "camera"
    /\ \E fovValue \in CameraFovs :
        storage' =
            IF fovValue # NoFov /\ Truthy(fovValue[1])
            THEN [storage EXCEPT !.pc = "resolved",
                                 !.item = FovToString(fovValue[1]),
                                 !.wrote = TRUE,
                                 !.result = [fov |-> fovValue[1],
                                             device |-> "Detected from camera settings"]]
            ELSE [storage EXCEPT !.pc = "resolved",
                                 !.result = [fov |-> DEFAULT_FOV,
                                             device |-> "Default (75)"]]
    /\ UNCHANGED <<trajectory, trajectoryVars, contentVars, orientationVars,
                   derivedVars, shellVars, component, simulator>>

\* getUserMedia rejects: the default.
CameraRefused ==
    /\ storage.pc = "camera"
    /\ storage' = [storage EXCEPT !.pc = "resolved",
                                  !.result = [fov |-> DEFAULT_FOV,
                                              device |-> "Default (75)"]]
    /\ UNCHANGED <<trajectory, trajectoryVars, contentVars, orientationVars,
                   derivedVars, shellVars, component, simulator>>

NextFov == DetectCameraFOV \/ CameraStream \/ CameraRefused

SpecFov == InitFov /\ [][NextFov]_vars

\* C30: every field of view detectCameraFOV returns or caches (the cached
\* value, the device detection, the camera settings) is strictly between
\* 0 and 180.
C30_FovInRange ==
    storage # Null =>
        /\ storage.result # Null =>
                (storage.result.fov > 0 /\ storage.result.fov < 180)
        /\ storage.wrote => ValidCachedFov(ParseFloat(storage.item))

====
